---- MODULE Spec2Model ----
(***************************************************************************)
(* Model of the share reconciliation engine                                *)
(* (backend/dataall/tasks/share_manager.py, class ShareManager).           *)
(*                                                                         *)
(* One share of one dataset is approved or rejected by sequential runs.    *)
(* The relational store, Lake Formation / Glue, S3, IAM and KMS are the    *)
(* environment: their state is part of the model and every mutating call   *)
(* may fail.  Policy documents are kept as sequences of statements; a      *)
(* field that JSON may hold as a scalar string or as a list keeps that     *)
(* distinction in the flag "scalar".                                       *)
(***************************************************************************)
EXTENDS Integers, Sequences, FiniteSets, TLC

\* ------------------------------------------------------------------ bounds
\* Number of Approve / Reject invocations in one behaviour.
MaxRuns == 2
\* Number of external calls that fail in one behaviour.
MaxFaults == 1

\* The tables and folders of the dataset, in the order the store lists them.
TableOrder == <<"t1", "t2">>
FolderOrder == <<"f1", "f2">>

\* ------------------------------------------------------------- generic helpers
SeqToSet(s) == {s[i] : i \in DOMAIN s}

Tables == SeqToSet(TableOrder)
Folders == SeqToSet(FolderOrder)
Objects == Tables \cup Folders

InSeq(x, s) == \E i \in DOMAIN s : s[i] = x

\* Python list.remove(x): drops the first element equal to x (the caller
\* checks membership first; a missing element is a ValueError there).
ListRemove(s, x) ==
    IF ~InSeq(x, s) THEN s
    ELSE LET i == CHOOSE k \in DOMAIN s : s[k] = x /\ \A j \in 1..(k - 1) : s[j] # x
         IN  SubSeq(s, 1, i - 1) \o SubSeq(s, i + 1, Len(s))

\* Python "needle in hay" on strings, strings being sequences of tokens.
Contains(hay, needle) ==
    \E i \in 0..(Len(hay) - Len(needle)) : SubSeq(hay, i + 1, i + Len(needle)) = needle

RECURSIVE JoinComma(_)
\* Python ",".join(list)
JoinComma(list) ==
    IF list = <<>> THEN <<>>
    ELSE IF Len(list) = 1 THEN list[1]
    ELSE list[1] \o <<",">> \o JoinComma(Tail(list))

\* The lists the store may answer for a share: the first n objects of the
\* dataset, for every n.
SubLists(order) == {SubSeq(order, 1, n) : n \in 0..Len(order)}

\* ------------------------------------------------------------ item statuses
PendingApproval == "PendingApproval"
Share_In_Progress == "Share_In_Progress"
Share_Succeeded == "Share_Succeeded"
Share_Failed == "Share_Failed"
Revoke_In_Progress == "Revoke_In_Progress"
Revoke_Share_Succeeded == "Revoke_Share_Succeeded"
Revoke_Share_Failed == "Revoke_Share_Failed"
\* Status of an object that has no item row in the share.
NoRow == "NoRow"

\* ----------------------------------------------------------- names and ARNs
\* dataset.S3BucketName and the bucket of another dataset the role may use.
BucketName == <<"b">>
OtherBucket == <<"c">>
\* share_item.S3AccessPointName
AccessPointName == <<"ap">>
\* SessionHelper.get_role_id(target account, target role)
TargetRoleId == "RID"

BucketArn(b) == <<"arn:aws:s3:::">> \o b
BucketAllArn(b) == BucketArn(b) \o <<"/*">>
AccessPointArn(ap) == <<"arn:aws:s3:r:a:accesspoint/">> \o ap
AccessPointAllArn(ap) == AccessPointArn(ap) \o <<"/*">>

\* The four resources a folder share adds to the role policy.
target_resources(bucket_name, access_point_name) ==
    << BucketArn(bucket_name), BucketAllArn(bucket_name),
       AccessPointArn(access_point_name), AccessPointAllArn(access_point_name) >>

\* ---------------------------------------------------------- policy documents
\* A document the store does not hold (get_* answers None).
NoPolicy == [exists |-> FALSE, stmts |-> <<>>]
Policy(stmts) == [exists |-> TRUE, stmts |-> stmts]

\* Sids of the access point policy: "<roleId>0", "<roleId>1", AllowAllToAdmin.
Sid0(rid) == <<rid, "0">>
Sid1(rid) == <<rid, "1">>
AdminSid == <<"AllowAllToAdmin", "">>

\* Python {item["Sid"]: item for item in stmts} followed by
\* list(statements.values()): one statement per Sid, at the position of the
\* Sid's first occurrence, holding the Sid's last statement.
RECURSIVE DictValuesFrom(_, _)
DictValuesFrom(stmts, i) ==
    IF i > Len(stmts) THEN <<>>
    ELSE LET first == \A j \in 1..(i - 1) : stmts[j].Sid # stmts[i].Sid
             last == CHOOSE j \in i..Len(stmts) :
                         /\ stmts[j].Sid = stmts[i].Sid
                         /\ \A k \in (j + 1)..Len(stmts) : stmts[k].Sid # stmts[i].Sid
         IN  (IF first THEN <<stmts[last]>> ELSE <<>>) \o DictValuesFrom(stmts, i + 1)

DictValues(stmts) == DictValuesFrom(stmts, 1)

HasSid(stmts, sid) == \E i \in DOMAIN stmts : stmts[i].Sid = sid
BySid(stmts, sid) == DictValues(stmts)[CHOOSE i \in DOMAIN DictValues(stmts) :
                                            DictValues(stmts)[i].Sid = sid]

\* statements[sid][field] = list, on the dictionary's statement
SetVals(stmts, sid, vals) ==
    [i \in DOMAIN stmts |->
        IF stmts[i].Sid = sid THEN [stmts[i] EXCEPT !.scalar = FALSE, !.vals = vals]
        ELSE stmts[i]]

\* S3.generate_access_point_policy_template(principal_id, access_point_arn, s3_prefix):
\* statement <rid>0 lists the prefix "p/*" under s3:prefix, statement <rid>1
\* lists the resource "<access point arn>/object/p/*".  A prefix p stands for
\* both strings.
generate_access_point_policy_template(rid, s3_prefix) ==
    << [Sid |-> Sid0(rid), scalar |-> FALSE, vals |-> <<s3_prefix>>],
       [Sid |-> Sid1(rid), scalar |-> FALSE, vals |-> <<s3_prefix>>] >>

\* "Resource": f"{access_point_arn}" of the AllowAllToAdmin statement
admin_statement == [Sid |-> AdminSid, scalar |-> TRUE, vals |-> <<"accesspoint">>]

\* What the S3 store may do to a stored access point policy: a list of one
\* value is held as a scalar string.
Normalise(doc) ==
    [doc EXCEPT !.stmts =
        [i \in DOMAIN doc.stmts |->
            IF Len(doc.stmts[i].vals) = 1
            THEN [doc.stmts[i] EXCEPT !.scalar = TRUE] ELSE doc.stmts[i]]]

\* S3.attach_access_point_policy(account, name, json.dumps(policy))
attach_access_point_policy(policy, normalises) ==
    IF normalises THEN Normalise(policy) ELSE policy

\* A call result: the stored document after the call and whether the call
\* raised to its caller.
Result(doc, raised) == [doc |-> doc, raised |-> raised]

\* --------------------------------------------------------- folder grant steps
\* The bucket policy is the sequence of its statements' Sids ("NoSid" for a
\* statement that has none).
\* manage_bucket_policy without the look for the two Sids.
manage_bucket_policy_append(bucket_policy, fail) ==
    IF fail = "create_bucket_policy"
    THEN Result(bucket_policy, TRUE)
    ELSE Result(bucket_policy \o <<"AllowAllToAdmin", "DelegateAccessToAccessPoint">>, FALSE)

manage_bucket_policy(bucket_policy, fail) ==
    IF \E i \in DOMAIN bucket_policy :
           bucket_policy[i] \in {"AllowAllToAdmin", "DelegateAccessToAccessPoint"}
    THEN Result(bucket_policy, FALSE)
    ELSE IF fail = "create_bucket_policy"
    THEN Result(bucket_policy, TRUE)
    ELSE Result(bucket_policy \o <<"AllowAllToAdmin", "DelegateAccessToAccessPoint">>, FALSE)

\* The role's inline policy targetDatasetAccessControlPolicy: the resource
\* list of its first statement.
NoRolePolicy == [exists |-> FALSE, res |-> <<>>]
RolePolicy(res) == [exists |-> TRUE, res |-> res]
\* json.dumps(None): what list.extend() returns is None
NullDocument == [exists |-> FALSE, res |-> << <<"null">> >>]

\* IAM.update_role_policy(account, role, name, document): IAM stores a policy
\* document and rejects "null" as malformed.  Whether the handler passes an
\* error of the call on to its caller is iam_raises.
update_role_policy(stored, document, fail, iam_raises) ==
    IF document = NullDocument \/ fail = "update_role_policy"
    THEN Result(stored, iam_raises)
    ELSE Result(document, FALSE)

\* IAM.delete_role_policy(account, role, name)
delete_role_policy(stored, fail, iam_raises) ==
    IF fail = "delete_role_policy"
    THEN Result(stored, iam_raises)
    ELSE Result(NoRolePolicy, FALSE)

grant_target_role_access_policy(existing_policy, bucket_name, access_point_name, fail, iam_raises) ==
    IF existing_policy.exists
    THEN IF ~Contains(JoinComma(existing_policy.res), bucket_name)
         THEN \* policy = existing_policy[...]["Resource"].extend(...) is None
              update_role_policy(existing_policy, NullDocument, fail, iam_raises)
         ELSE Result(existing_policy, FALSE)
    ELSE update_role_policy(
             existing_policy,
             RolePolicy(target_resources(bucket_name, access_point_name)),
             fail, iam_raises)

\* The access point and its policy: [ap |-> the access point exists,
\* doc |-> its policy, raised |-> ...].
ApResult(ap, doc, raised) == [ap |-> ap, doc |-> doc, raised |-> raised]

\* manage_access_point_and_policy without the look for <rid>0: the pair of
\* statements is appended to every existing policy.
manage_access_point_and_policy_extend(ap_exists, existing_policy, rid, s3_prefix, fail, normalises) ==
    IF ~ap_exists /\ fail = "create_bucket_access_point"
    THEN ApResult(FALSE, existing_policy, TRUE)
    ELSE
    LET access_point_policy ==
            IF existing_policy.exists
            THEN Policy(existing_policy.stmts
                        \o generate_access_point_policy_template(rid, s3_prefix))
            ELSE Policy(generate_access_point_policy_template(rid, s3_prefix)
                        \o <<admin_statement>>)
    IN  IF fail = "attach_access_point_policy"
        THEN ApResult(TRUE, existing_policy, TRUE)
        ELSE ApResult(TRUE, attach_access_point_policy(access_point_policy, normalises), FALSE)

\* manage_access_point_and_policy without the isinstance(..., str) reads: a
\* field held as a scalar string is taken for an empty list.
manage_access_point_and_policy_dropscalar(ap_exists, existing_policy, rid, s3_prefix, fail, normalises) ==
    IF ~ap_exists /\ fail = "create_bucket_access_point"
    THEN ApResult(FALSE, existing_policy, TRUE)
    ELSE
    LET statements == DictValues(existing_policy.stmts)
        st0 == BySid(existing_policy.stmts, Sid0(rid))
        st1 == BySid(existing_policy.stmts, Sid1(rid))
        list0 == IF st0.scalar THEN <<>> ELSE st0.vals
        list1 == IF st1.scalar THEN <<>> ELSE st1.vals
        with0 == IF InSeq(s3_prefix, list0) THEN statements
                 ELSE SetVals(statements, Sid0(rid), Append(list0, s3_prefix))
        with1 == IF InSeq(s3_prefix, list1) THEN with0
                 ELSE SetVals(with0, Sid1(rid), Append(list1, s3_prefix))
        key_error == /\ existing_policy.exists
                     /\ HasSid(existing_policy.stmts, Sid0(rid))
                     /\ ~HasSid(existing_policy.stmts, Sid1(rid))
        access_point_policy ==
            IF existing_policy.exists
            THEN IF HasSid(existing_policy.stmts, Sid0(rid))
                 THEN Policy(with1)
                 ELSE Policy(existing_policy.stmts
                             \o generate_access_point_policy_template(rid, s3_prefix))
            ELSE Policy(generate_access_point_policy_template(rid, s3_prefix)
                        \o <<admin_statement>>)
    IN  IF key_error \/ fail = "attach_access_point_policy"
        THEN ApResult(TRUE, existing_policy, TRUE)
        ELSE ApResult(TRUE, attach_access_point_policy(access_point_policy, normalises), FALSE)

manage_access_point_and_policy(ap_exists, existing_policy, rid, s3_prefix, fail, normalises) ==
    IF ~ap_exists /\ fail = "create_bucket_access_point"
    THEN ApResult(FALSE, existing_policy, TRUE)
    ELSE
    LET statements == DictValues(existing_policy.stmts)
        st0 == BySid(existing_policy.stmts, Sid0(rid))
        st1 == BySid(existing_policy.stmts, Sid1(rid))
        with0 == IF InSeq(s3_prefix, st0.vals) THEN statements
                 ELSE SetVals(statements, Sid0(rid), Append(st0.vals, s3_prefix))
        with1 == IF InSeq(s3_prefix, st1.vals) THEN with0
                 ELSE SetVals(with0, Sid1(rid), Append(st1.vals, s3_prefix))
        key_error == /\ existing_policy.exists
                     /\ HasSid(existing_policy.stmts, Sid0(rid))
                     /\ ~HasSid(existing_policy.stmts, Sid1(rid))
        access_point_policy ==
            IF existing_policy.exists
            THEN IF HasSid(existing_policy.stmts, Sid0(rid))
                 THEN Policy(with1)
                 ELSE Policy(existing_policy.stmts
                             \o generate_access_point_policy_template(rid, s3_prefix))
            ELSE Policy(generate_access_point_policy_template(rid, s3_prefix)
                        \o <<admin_statement>>)
    IN  IF key_error \/ fail = "attach_access_point_policy"
        THEN ApResult(TRUE, existing_policy, TRUE)
        ELSE ApResult(TRUE, attach_access_point_policy(access_point_policy, normalises), FALSE)

\* The key policy: statements [Sid, users], users being the role ids of the
\* statement's aws:userId condition ("<id>:*").
KeyStatement(rid) == [Sid |-> rid, users |-> {rid}]
\* f'{target_env_admin_id}:*' in existing_policy, on the policy's JSON text:
\* role ids have one fixed length, so the text holds "<id>:*" exactly when
\* some statement names the id.
KeyPolicyMentions(doc, rid) == \E i \in DOMAIN doc.stmts : rid \in doc.stmts[i].users

\* update_dataset_bucket_key_policy without the look for the role id.
update_dataset_bucket_key_policy_append(existing_policy, rid, fail) ==
    IF existing_policy.exists
    THEN IF fail = "put_key_policy"
         THEN Result(existing_policy, TRUE)
         ELSE Result(Policy(Append(existing_policy.stmts, KeyStatement(rid))), FALSE)
    ELSE Result(existing_policy, FALSE)

\* update_dataset_bucket_key_policy that puts no policy.
update_dataset_bucket_key_policy_skip(existing_policy, rid, fail) ==
    Result(existing_policy, FALSE)

update_dataset_bucket_key_policy(existing_policy, rid, fail) ==
    IF existing_policy.exists /\ ~KeyPolicyMentions(existing_policy, rid)
    THEN IF fail = "put_key_policy"
         THEN Result(existing_policy, TRUE)
         ELSE Result(Policy(Append(existing_policy.stmts, KeyStatement(rid))), FALSE)
    ELSE Result(existing_policy, FALSE)

\* -------------------------------------------------------- folder revoke steps
delete_access_point_policy(access_point_policy, rid, s3_prefix, fail, normalises) ==
    IF ~access_point_policy.exists
    THEN Result(access_point_policy, TRUE)          \* json.loads(None)
    ELSE
    LET stmts == access_point_policy.stmts
        statements == DictValues(stmts)
        has0 == HasSid(stmts, Sid0(rid))
        has1 == HasSid(stmts, Sid1(rid))
        st0 == BySid(stmts, Sid0(rid))
        st1 == BySid(stmts, Sid1(rid))
        in_list == has0 /\ ~st0.scalar /\ InSeq(s3_prefix, st0.vals)
        \* KeyError, AttributeError (str has no remove), ValueError
        error == /\ has0
                 /\ \/ ~has1
                    \/ in_list /\ (st1.scalar \/ ~InSeq(s3_prefix, st1.vals))
        removed ==
            IF in_list
            THEN SetVals(SetVals(statements, Sid0(rid), ListRemove(st0.vals, s3_prefix)),
                         Sid1(rid), ListRemove(st1.vals, s3_prefix))
            ELSE ListRemove(ListRemove(stmts, st0), st1)
        policy == IF has0 THEN Policy(removed) ELSE access_point_policy
    IN  IF error \/ fail = "attach_access_point_policy"
        THEN Result(access_point_policy, TRUE)
        ELSE Result(attach_access_point_policy(policy, normalises), FALSE)

\* delete_access_point without the count of the statements.
delete_access_point_always(ap_exists, access_point_policy, fail) ==
    IF ~access_point_policy.exists
    THEN [ap |-> ap_exists, doc |-> access_point_policy, raised |-> TRUE, cleanup |-> FALSE]
    ELSE IF fail = "delete_bucket_access_point"
    THEN [ap |-> ap_exists, doc |-> access_point_policy, raised |-> TRUE, cleanup |-> FALSE]
    ELSE [ap |-> FALSE, doc |-> NoPolicy, raised |-> FALSE, cleanup |-> TRUE]

\* [ap, doc, raised, cleanup |-> the value returned]
delete_access_point(ap_exists, access_point_policy, fail) ==
    IF ~access_point_policy.exists
    THEN [ap |-> ap_exists, doc |-> access_point_policy, raised |-> TRUE, cleanup |-> FALSE]
    ELSE IF Len(access_point_policy.stmts) <= 1
    THEN IF fail = "delete_bucket_access_point"
         THEN [ap |-> ap_exists, doc |-> access_point_policy, raised |-> TRUE,
               cleanup |-> FALSE]
         ELSE [ap |-> FALSE, doc |-> NoPolicy, raised |-> FALSE, cleanup |-> TRUE]
    ELSE [ap |-> ap_exists, doc |-> access_point_policy, raised |-> FALSE, cleanup |-> FALSE]

RECURSIVE RemoveAll(_, _)
\* for item in target_resources: list.remove(item)
RemoveAll(list, items) ==
    IF items = <<>> THEN list ELSE RemoveAll(ListRemove(list, Head(items)), Tail(items))

delete_target_role_access_policy(existing_policy, bucket_name, access_point_name, fail, iam_raises) ==
    IF existing_policy.exists /\ Contains(JoinComma(existing_policy.res), bucket_name)
    THEN LET items == target_resources(bucket_name, access_point_name)
             value_error == \E i \in DOMAIN items : ~InSeq(items[i], existing_policy.res)
             left == RemoveAll(existing_policy.res, items)
         IN  IF value_error THEN Result(existing_policy, TRUE)
             ELSE IF left = <<>>
             THEN delete_role_policy(existing_policy, fail, iam_raises)
             ELSE update_role_policy(existing_policy, RolePolicy(left), fail, iam_raises)
    ELSE Result(existing_policy, FALSE)

delete_dataset_bucket_key_policy(existing_policy, rid, fail) ==
    IF existing_policy.exists /\ KeyPolicyMentions(existing_policy, rid)
    THEN IF fail = "put_key_policy"
         THEN Result(existing_policy, TRUE)
         ELSE Result(Policy(SelectSeq(existing_policy.stmts, LAMBDA st : st.Sid # rid)),
                     FALSE)
    ELSE Result(existing_policy, FALSE)

\* ------------------------------------------------------ Lake Formation, Glue
\* The catalog state: source  = tables the target account holds the
\*                              cross-account grant on,
\*                    shadow  = resource links in the target's shadow database,
\*                    link    = resource links the target role holds a grant on,
\*                    everyone = source tables that still hold the legacy
\*                              grant of ALL to EVERYONE (IAMAllowedGroups).
EmptyLF == [source |-> {}, shadow |-> {}, link |-> {}, everyone |-> {}]
LfResult(lf, raised) == [lf |-> lf, raised |-> raised]

\* entries[i : i + 20]
ChunkSize == 20

Min(a, b) == IF a < b THEN a ELSE b

\* entries_chunks that keeps the full chunks only.
entries_chunks_full(entries) ==
    [i \in 1..(Len(entries) \div ChunkSize) |->
        SubSeq(entries, (i - 1) * ChunkSize + 1, i * ChunkSize)]

entries_chunks(entries) ==
    [i \in 1..((Len(entries) + ChunkSize - 1) \div ChunkSize) |->
        SubSeq(entries, (i - 1) * ChunkSize + 1, Min(i * ChunkSize, Len(entries)))]

\* batch_revoke_permissions that tolerates no failure.
Benign_never(failure) == FALSE

\* A failure of a batch response: [entry, code, message], the message a
\* string of tokens.
Benign(failure) ==
    /\ failure.code = "InvalidInputException"
    /\ \/ Contains(failure.message, <<"Grantee has no permissions">>)
       \/ Contains(failure.message, <<"No permissions revoked">>)

RECURSIVE FailuresUpTo(_, _)
\* failures.extend(response.get('Failures')) over the first k responses
FailuresUpTo(resp, k) ==
    IF k = 0 THEN <<>> ELSE FailuresUpTo(resp, k - 1) \o resp[k].failures

\* batch_revoke_permissions that re-raises for any failure.
batch_revoke_permissions_strict(entries, resp) ==
    LET chunks == entries_chunks(entries)
        n == Len(chunks)
        errors == {i \in 1..n : resp[i].error}
        called == IF errors = {} THEN n
                  ELSE CHOOSE i \in errors : \A j \in errors : i <= j
        failures == IF errors = {} THEN FailuresUpTo(resp, n)
                    ELSE FailuresUpTo(resp, called - 1)
    IN  [raised |-> failures # <<>>, called |-> called, failures |-> failures]

\* resp[i] = [error |-> the i-th call raises ClientError,
\*            failures |-> the Failures of its response].
\* called = number of revoke calls issued.
batch_revoke_permissions(entries, resp) ==
    LET chunks == entries_chunks(entries)
        n == Len(chunks)
        errors == {i \in 1..n : resp[i].error}
        called == IF errors = {} THEN n
                  ELSE CHOOSE i \in errors : \A j \in errors : i <= j
        failures == IF errors = {} THEN FailuresUpTo(resp, n)
                    ELSE FailuresUpTo(resp, called - 1)
        client_error == errors # {} \/ failures # <<>>
    IN  [raised |-> client_error /\ \E i \in DOMAIN failures : ~Benign(failures[i]),
         called |-> called,
         failures |-> failures]

\* What Lake Formation answers to one revoke call for entries (tables) of
\* which only those in granted hold the grant: an absent grant is reported as
\* "No permissions revoked"; kind "failure" makes the entry at fail with
\* another error, kind "call_error" makes the call raise.
LfResponse(entries, granted, kind, at) ==
    IF kind = "call_error" /\ InSeq(at, entries)
    THEN [error |-> TRUE, failures |-> <<>>]
    ELSE [error |-> FALSE,
          failures |->
              LET failed == SelectSeq(entries, LAMBDA e :
                                e \notin granted \/ (kind = "failure" /\ e = at))
              IN  [i \in DOMAIN failed |->
                      IF kind = "failure" /\ failed[i] = at
                      THEN [entry |-> failed[i], code |-> "AccessDeniedException",
                            message |-> <<"denied">>]
                      ELSE [entry |-> failed[i], code |-> "InvalidInputException",
                            message |-> <<"No permissions revoked">>]]]

\* The grants left after that call.
LfRevoked(entries, granted, kind, at) ==
    IF kind = "call_error" /\ InSeq(at, entries) THEN granted
    ELSE {e \in granted : ~InSeq(e, entries) \/ (kind = "failure" /\ e = at)}

\* ---------------------------------------------------------- table grant steps
\* The revoke of the legacy grant: batch_raised is what
\* batch_revoke_permissions did, raised what the function does, whose
\* except ClientError clause logs a warning.
revoke_iamallowedgroups_super_permission_from_table(lf, table, fail) ==
    LET entries == <<table>>
        kind == IF fail = "revoke_iamallowedgroups" THEN "failure" ELSE "none"
        answer == batch_revoke_permissions(
                      entries, <<LfResponse(entries, lf.everyone, kind, table)>>)
    IN  [lf |-> [lf EXCEPT !.everyone = LfRevoked(entries, lf.everyone, kind, table)],
         raised |-> FALSE,
         batch_raised |-> answer.raised]

\* grant_permissions_to_table logs a ClientError ("# raise e").
share_table_with_target_account(lf, table, fail) ==
    LET revoked == revoke_iamallowedgroups_super_permission_from_table(lf, table, fail)
    IN  LfResult(IF fail = "grant_permissions_to_table" THEN revoked.lf
                 ELSE [revoked.lf EXCEPT !.source = @ \cup {table}],
                 revoked.raised)

\* get_resource_share_invitations raises; accept_resource_share_invitation
\* raises unless the invitation was already accepted.
accept_ram_invitation(fail) ==
    fail \in {"get_resource_share_invitations", "accept_resource_share_invitation"}

\* Glue._create_table creates the resource link unless it exists.
\* grant_permissions_to_database and grant_resource_link_permission log a
\* ClientError; grant_resource_link_permission_on_target does not catch it.
create_resource_link_on_target_account(lf, table, fail) ==
    IF fail = "_create_table" THEN LfResult(lf, TRUE)
    ELSE LET created == [lf EXCEPT !.shadow = @ \cup {table}]
             granted == IF fail = "grant_resource_link_permission" THEN created
                        ELSE [created EXCEPT !.link = @ \cup {table}]
         IN  LfResult(granted, fail = "grant_resource_link_permission_on_target")

\* The external calls of one table's sequence that may fail.
TableFaults ==
    { "revoke_iamallowedgroups", "grant_permissions_to_table",
      "get_resource_share_invitations", "accept_resource_share_invitation",
      "already_accepted", "_create_table", "grant_permissions_to_database",
      "grant_resource_link_permission", "grant_resource_link_permission_on_target" }

\* try-block of share_tables: the three calls in order, the first that
\* raises ends it.
share_table_sequence(lf, table, fail) ==
    LET shared == share_table_with_target_account(lf, table, fail)
        linked == create_resource_link_on_target_account(shared.lf, table, fail)
    IN  IF shared.raised THEN shared
        ELSE IF accept_ram_invitation(fail) THEN LfResult(shared.lf, TRUE)
        ELSE linked

\* The same try block step by step, with the calls each step issues.  lf
\* has here the field accepted: the RAM invitations of the target account
\* that are accepted.
MaxInvitations == 2

\* response.get('resourceShareInvitations'): every invitation of the
\* account, in any status.
Invitations == [i \in 1..MaxInvitations |-> i]

RoleArn == "environmentIAMRoleArn"
GroupArn == "quicksight-group"

\* approve_share: principals = [target_env_group.environmentIAMRoleArn], and
\* the Quicksight group when dashboards are enabled and describe_group finds
\* it; a ClientError of describe_group is logged.
add_quicksight_group_to_shared_with_principals(dashboardsEnabled, group) ==
    <<RoleArn>> \o (IF dashboardsEnabled /\ group = "found" THEN <<GroupArn>> ELSE <<>>)

Call(name, principal, resource, permissions) ==
    [call |-> name, principal |-> principal, resource |-> resource,
     permissions |-> permissions]

\* What a step did: the Lake Formation and RAM state, the calls it issued
\* and whether it raised.
StepResult(lf, calls, raised) == [lf |-> lf, calls |-> calls, raised |-> raised]

\* grant_permissions_to_table logs a ClientError ("# raise e").
grant_permissions_to_table(lf, principal, table, permissions, fail) ==
    StepResult(IF fail = "grant_permissions_to_table" THEN lf
               ELSE [lf EXCEPT !.source = @ \cup {table}],
               <<Call("grant_permissions", principal, <<"Table", "source", table>>,
                      permissions)>>,
               FALSE)

\* accept_resource_share_invitation that lets every ClientError through.
accept_resource_share_invitation_raising(accepted, invitation, error) ==
    [accepted |-> accepted \cup (IF error THEN {} ELSE {invitation}),
     raised |-> error \/ invitation \in accepted]

\* RAM answers ResourceShareInvitationAlreadyAcceptedException for an
\* accepted invitation; the function logs that one and re-raises any other.
accept_resource_share_invitation(accepted, invitation, error) ==
    LET code == IF error THEN "OtherException"
                ELSE IF invitation \in accepted
                THEN "ResourceShareInvitationAlreadyAcceptedException"
                ELSE "none"
    IN  [accepted |-> accepted \cup (IF code = "none" THEN {invitation} ELSE {}),
         raised |-> code \notin {"none", "ResourceShareInvitationAlreadyAcceptedException"}]

RECURSIVE accept_invitations(_, _, _)
\* for invitation in ram_invitations: accept_resource_share_invitation(...);
\* the failing acceptance is that of the last invitation.
accept_invitations(ram_invitations, lf, fail) ==
    IF ram_invitations = <<>> THEN StepResult(lf, <<>>, FALSE)
    ELSE LET invitation == Head(ram_invitations)
             error == fail = "accept_resource_share_invitation" /\ Tail(ram_invitations) = <<>>
             answer == accept_resource_share_invitation(lf.accepted, invitation, error)
             call == Call("accept_resource_share_invitation", "", invitation, {})
             rest == accept_invitations(Tail(ram_invitations),
                                        [lf EXCEPT !.accepted = answer.accepted], fail)
         IN  IF answer.raised THEN StepResult(lf, <<call>>, TRUE)
             ELSE StepResult(rest.lf, <<call>> \o rest.calls, rest.raised)

accept_ram_invitation_calls(lf, fail) ==
    IF fail = "get_resource_share_invitations"
    THEN StepResult(lf, <<Call("get_resource_share_invitations", "", "", {})>>, TRUE)
    ELSE LET accepted == accept_invitations(Invitations, lf, fail)
         IN  StepResult(accepted.lf,
                        <<Call("get_resource_share_invitations", "", "", {})>>
                            \o accepted.calls,
                        accepted.raised)

\* for principal in principals: client.grant_permissions(...)
GrantCalls(principals, resource, permissions) ==
    [i \in DOMAIN principals |->
        Call("grant_permissions", principals[i], resource, permissions)]

\* The three grants of create_resource_link_on_target_account.  The first
\* two log a ClientError; the third lets it through, and the principals
\* after the failing one, the first, get no call.
grant_target_principals(lf, principals, table, fail) ==
    LET database == GrantCalls(principals, <<"Database", "shared", "">>, {"ALL"})
        link == GrantCalls(principals, <<"Table", "shared", table>>,
                           {"DESCRIBE", "DROP", "ALL"})
        target == GrantCalls(principals, <<"TableWithColumns", "source", table>>,
                             {"DESCRIBE", "SELECT"})
        raised == fail = "grant_resource_link_permission_on_target"
    IN  StepResult(IF fail = "grant_resource_link_permission" THEN lf
                   ELSE [lf EXCEPT !.link = @ \cup {table}],
                   database \o link \o (IF raised THEN SubSeq(target, 1, 1) ELSE target),
                   raised)

\* The steps of the try block in the order of the code.
TableSteps ==
    << "revoke_iamallowedgroups_super_permission_from_table",
       "grant_permissions_to_table", "accept_ram_invitation", "_create_table",
       "grant_target_principals" >>

\* next_step without the exception: the steps go on after one that raised.
next_step_on(step, raised) ==
    LET i == CHOOSE k \in DOMAIN TableSteps : TableSteps[k] = step
    IN  IF i = Len(TableSteps) THEN (IF raised THEN "except" ELSE "succeeded")
        ELSE TableSteps[i + 1]

\* Where the try block is after a step: in the except clause when the step
\* raised, at the next step or, after the last, at the status write.
next_step(step, raised) ==
    LET i == CHOOSE k \in DOMAIN TableSteps : TableSteps[k] = step
    IN  IF raised THEN "except"
        ELSE IF i = Len(TableSteps) THEN "succeeded" ELSE TableSteps[i + 1]

\* ------------------------------------------------------- folder sequences
\* The policy stores: [bucket, role, ap, appol, key].
FolderFaults ==
    { "create_bucket_policy", "update_role_policy", "create_bucket_access_point",
      "attach_access_point_policy", "put_key_policy" }

RevokeFaults ==
    { "attach_access_point_policy", "delete_bucket_access_point",
      "update_role_policy", "delete_role_policy", "put_key_policy" }

SeqResult(d, raised) == [docs |-> d, raised |-> raised]

\* try-block of share_folders: the four steps in order, the first that
\* raises ends it.
share_folder_sequence(d, s3_prefix, fail, iam_raises, normalises) ==
    LET b == manage_bucket_policy(d.bucket, fail)
        r == grant_target_role_access_policy(d.role, BucketName, AccessPointName,
                                             fail, iam_raises)
        a == manage_access_point_and_policy(d.ap, d.appol, TargetRoleId, s3_prefix,
                                            fail, normalises)
        k == update_dataset_bucket_key_policy(d.key, TargetRoleId, fail)
        d1 == [d EXCEPT !.bucket = b.doc]
        d2 == [d1 EXCEPT !.role = r.doc]
        d3 == [d2 EXCEPT !.ap = a.ap, !.appol = a.doc]
        d4 == [d3 EXCEPT !.key = k.doc]
    IN  IF b.raised THEN SeqResult(d1, TRUE)
        ELSE IF r.raised THEN SeqResult(d2, TRUE)
        ELSE IF a.raised THEN SeqResult(d3, TRUE)
        ELSE SeqResult(d4, k.raised)

\* try-block of revoke_shared_folders and of clean_shared_folders.
revoke_folder_sequence(d, s3_prefix, fail, iam_raises, normalises) ==
    LET p == delete_access_point_policy(d.appol, TargetRoleId, s3_prefix, fail, normalises)
        a == delete_access_point(d.ap, p.doc, fail)
        r == delete_target_role_access_policy(d.role, BucketName, AccessPointName,
                                              fail, iam_raises)
        k == delete_dataset_bucket_key_policy(d.key, TargetRoleId, fail)
        d1 == [d EXCEPT !.appol = p.doc]
        d2 == [d1 EXCEPT !.ap = a.ap, !.appol = a.doc]
        d3 == [d2 EXCEPT !.role = r.doc]
        d4 == [d3 EXCEPT !.key = k.doc]
    IN  IF p.raised THEN SeqResult(d1, TRUE)
        ELSE IF a.raised THEN SeqResult(d2, TRUE)
        ELSE IF ~a.cleanup THEN SeqResult(d2, FALSE)
        ELSE IF r.raised THEN SeqResult(d3, TRUE)
        ELSE SeqResult(d4, k.raised)

\* prefix_list of clean_shared_folders: the prefixes of statement <rid>0,
\* a scalar read as a list of one, "/*" cut off each.
listed_prefixes(access_point_policy, rid) ==
    IF access_point_policy.exists /\ HasSid(access_point_policy.stmts, Sid0(rid))
    THEN BySid(access_point_policy.stmts, Sid0(rid)).vals
    ELSE <<>>

RECURSIVE revoke_removed_prefixes_abort(_, _, _, _, _, _)
\* The loop of clean_shared_folders without the try ... except: the first
\* prefix whose sequence raises ends it.
revoke_removed_prefixes_abort(removed, d, fail, at, iam_raises, normalises) ==
    IF removed = <<>> THEN d
    ELSE LET done == revoke_folder_sequence(d, Head(removed),
                                            IF at = Head(removed) THEN fail ELSE "none",
                                            iam_raises, normalises)
         IN  IF done.raised THEN done.docs
             ELSE revoke_removed_prefixes_abort(Tail(removed), done.docs, fail, at,
                                                iam_raises, normalises)

RECURSIVE revoke_removed_prefixes(_, _, _, _, _, _)
\* for prefix in removed_prefixes: try ... except Exception: log, alarm
revoke_removed_prefixes(removed, d, fail, at, iam_raises, normalises) ==
    IF removed = <<>> THEN d
    ELSE revoke_removed_prefixes(
             Tail(removed),
             revoke_folder_sequence(d, Head(removed),
                                    IF at = Head(removed) THEN fail ELSE "none",
                                    iam_raises, normalises).docs,
             fail, at, iam_raises, normalises)

\* clean_shared_folders without the subtraction of the shared prefixes.
clean_shared_folders_all(d, shared_folders, fail, at, iam_raises, normalises) ==
    revoke_removed_prefixes(listed_prefixes(d.appol, TargetRoleId), d, fail, at,
                            iam_raises, normalises)

clean_shared_folders(d, shared_folders, fail, at, iam_raises, normalises) ==
    LET prefix_list == listed_prefixes(d.appol, TargetRoleId)
        removed_prefixes == SelectSeq(prefix_list, LAMBDA p : ~InSeq(p, shared_folders))
    IN  revoke_removed_prefixes(removed_prefixes, d, fail, at, iam_raises, normalises)

\* ------------------------------------------------------------ shadow sweep
\* The other shares of the dataset: [env, status, tables].
TargetEnv == "env-target"
OtherEnv == "env-other"

\* is_shared of clean_shared_database: an item of an Approved share of the
\* dataset for the target environment names the table.
is_shared(shares, table) ==
    \E s \in shares : table \in s.tables /\ s.status = "Approved" /\ s.env = TargetEnv

\* other_approved_share_object_exists that finds no share.
other_approved_share_object_exists_none(shares, environments, environment_uri) == {}

\* session.query(ShareObject).filter(Environment.environmentUri == uri,
\* ShareObject.status == Approved).all(): ShareObject is not joined to
\* Environment, so every Approved share pairs with the environment's row.
other_approved_share_object_exists(shares, environments, environment_uri) ==
    {s \in shares : s.status = "Approved"
                    /\ \E e \in environments : e = environment_uri}

RECURSIVE revoke_orphans(_, _, _, _, _, _)
\* The loop of clean_shared_database over the shadow tables that are not in
\* shared_tables.  exists[t] is Glue.table_exists on the source table.
revoke_orphans(orphans, lf, shares, exists, kind, at) ==
    IF orphans = <<>> THEN LfResult(lf, FALSE)
    ELSE
    LET t == Head(orphans)
        entries == <<t>>
        revoke == ~is_shared(shares, t) /\ exists[t]
        answer == batch_revoke_permissions(
                      entries, <<LfResponse(entries, lf.source, kind, at)>>)
        after == IF revoke
                 THEN [lf EXCEPT !.source = LfRevoked(entries, lf.source, kind, at)]
                 ELSE lf
    IN  IF revoke /\ answer.raised THEN LfResult(after, TRUE)
        ELSE revoke_orphans(Tail(orphans), after, shares, exists, kind, at)

\* clean_shared_database without the comparison with shared_tables.
clean_shared_database_all(lf, shared_tables, shares, exists, kind, at) ==
    LET shared_glue_tables == SelectSeq(TableOrder, LAMBDA t : t \in lf.shadow)
        revoked == revoke_orphans(shared_glue_tables, lf, shares, exists, kind, at)
    IN  IF revoked.raised THEN revoked
        ELSE LfResult([revoked.lf EXCEPT !.shadow = {}], FALSE)

\* Glue.list_glue_database_tables lists the shadow database; Glue.batch_delete_tables
\* deletes the names it is given.
clean_shared_database(lf, shared_tables, shares, exists, kind, at) ==
    LET shared_glue_tables == SelectSeq(TableOrder, LAMBDA t : t \in lf.shadow)
        tables_to_delete == SelectSeq(shared_glue_tables,
                                      LAMBDA t : ~InSeq(t, shared_tables))
        revoked == revoke_orphans(tables_to_delete, lf, shares, exists, kind, at)
    IN  IF revoked.raised THEN revoked
        ELSE LfResult([revoked.lf EXCEPT !.shadow = @ \ SeqToSet(tables_to_delete)],
                      FALSE)

RECURSIVE revoke_external_account_access_on_source_account(_, _, _, _, _)
\* for table in shared_tables: revoke_entries.append(...); batch_revoke(revoke_entries)
revoke_external_account_access_on_source_account(todo, revoke_entries, lf, kind, at) ==
    IF todo = <<>> THEN LfResult(lf, FALSE)
    ELSE
    LET entries == Append(revoke_entries, Head(todo))
        \* a failure is injected into the first call that holds the entry
        k == IF Head(todo) = at THEN kind ELSE "none"
        answer == batch_revoke_permissions(
                      entries, <<LfResponse(entries, lf.source, k, at)>>)
        after == [lf EXCEPT !.source = LfRevoked(entries, lf.source, k, at)]
    IN  IF answer.raised THEN LfResult(after, TRUE)
        ELSE revoke_external_account_access_on_source_account(
                 Tail(todo), entries, after, kind, at)

\* ================================================================== state
VARIABLES
    op,              \* the entry point running: "none", "approve", "reject"
    pc,              \* its position
    idx,             \* index of the loop over shared_tables / shared_folders
    runs,            \* invocations so far
    faults,          \* external calls that failed so far
    result,          \* of the current invocation: "none", "success", "error"
    cause,           \* what raised out of the invocation
    shared_tables,   \* resolved by get_share_data
    shared_folders,
    revoke_entries,  \* local list of revoke_resource_links_access_on_target_account
    target_env_group,\* the target team's environment membership record exists
    item_status,     \* ShareObjectItem.status of each object (NoRow: no item)
    other_shares,    \* the other shares of the dataset
    lf,              \* Lake Formation / Glue
    bucket_policy, role_policy, ap_exists, ap_policy, key_policy,
    iam_raises,      \* the IAM handler passes errors on to its caller
    s3_normalises,   \* the S3 store holds one-value lists as scalars
    hist,            \* statuses written to each item by the current invocation
    last,            \* the item sequence run last: [item, fail, raised]
    touched,         \* objects a mutating external call was issued for
    prev             \* the state the current invocation started from

vars == << op, pc, idx, runs, faults, result, cause, shared_tables, shared_folders,
           revoke_entries, target_env_group, item_status, other_shares, lf,
           bucket_policy, role_policy, ap_exists, ap_policy, key_policy,
           iam_raises, s3_normalises, hist, last, touched, prev >>

ctl == << op, runs, shared_tables, shared_folders, target_env_group, other_shares,
          iam_raises, s3_normalises, prev >>
stores == << bucket_policy, role_policy, ap_exists, ap_policy, key_policy >>

Docs == [bucket |-> bucket_policy, role |-> role_policy, ap |-> ap_exists,
         appol |-> ap_policy, key |-> key_policy]

SetDocs(d) ==
    /\ bucket_policy' = d.bucket
    /\ role_policy' = d.role
    /\ ap_exists' = d.ap
    /\ ap_policy' = d.appol
    /\ key_policy' = d.key

Environments == {TargetEnv, OtherEnv}
\* last.legacy, of a table shared: the legacy grant was absent, what its
\* revoke did.
NoLegacy == [absent |-> FALSE, raised |-> FALSE, batch_raised |-> FALSE]
NoLast == [item |-> "none", fail |-> "none", raised |-> FALSE, legacy |-> NoLegacy]
NoHist == [o \in Objects |-> <<>>]

Snapshot ==
    [op |-> op, result |-> result, tables |-> shared_tables, folders |-> shared_folders,
     status |-> item_status, docs |-> Docs]

\* The rows of the relational store an invocation may find.
InitItemStatus ==
    {[o \in Objects |-> IF o \in missing THEN NoRow ELSE PendingApproval] :
        missing \in {{}, {"t2"}, {"f1"}}}

InitOtherShares ==
    { {},
      {[env |-> TargetEnv, status |-> "Approved", tables |-> {"t2"}]},
      {[env |-> OtherEnv, status |-> "Approved", tables |-> {"t2"}]} }

\* Before the first share no table is shared; a table created before Lake
\* Formation governed the catalog may hold the legacy grant.
InitLF == {[EmptyLF EXCEPT !.everyone = e] : e \in {{}, {"t1"}}}

\* The target role's inline policy before the first share: none, or one
\* that lists another dataset's bucket and access point.
InitRolePolicy == {NoRolePolicy, RolePolicy(target_resources(OtherBucket, <<"ap2">>))}

\* No invocation has run: nothing is shared, the access point does not
\* exist.  The catalog side (item rows, other shares) and the policy side
\* (role policy, handler and store behaviour) do not read each other's
\* state; the initial states vary one side at a time.
Init ==
    /\ op = "none" /\ pc = "idle" /\ idx = 1 /\ runs = 0 /\ faults = 0
    /\ result = "none" /\ cause = "none"
    /\ shared_tables = <<>> /\ shared_folders = <<>> /\ revoke_entries = <<>>
    /\ target_env_group \in BOOLEAN
    /\ item_status \in InitItemStatus
    /\ other_shares \in InitOtherShares
    /\ lf \in InitLF
    /\ bucket_policy = <<"NoSid">>
    /\ role_policy \in InitRolePolicy
    /\ ap_exists = FALSE /\ ap_policy = NoPolicy
    /\ key_policy = Policy(<< [Sid |-> "KeyAdmin", users |-> {"ADMIN"}] >>)
    /\ iam_raises \in BOOLEAN
    /\ s3_normalises \in BOOLEAN
    /\ \/ /\ \A o \in Objects : item_status[o] # NoRow
          /\ other_shares = {} /\ lf = EmptyLF
       \/ /\ role_policy = NoRolePolicy /\ iam_raises /\ s3_normalises
          /\ lf = EmptyLF \/ ((\A o \in Objects : item_status[o] # NoRow)
                              /\ other_shares = {})
    /\ target_env_group \/ (other_shares = {} /\ role_policy = NoRolePolicy
                            /\ iam_raises /\ s3_normalises /\ lf = EmptyLF)
    /\ hist = NoHist /\ last = NoLast /\ touched = {}
    /\ prev = [op |-> "none", result |-> "none", tables |-> <<>>, folders |-> <<>>,
               status |-> item_status, docs |-> Docs]

\* ------------------------------------------------------------ item tracker
ObjectNotFound == "ObjectNotFound"

\* get_share_item that answers an item for every object.
get_share_item_any(items, share_category) == share_category

get_share_item(items, share_category) ==
    IF items[share_category] = NoRow THEN ObjectNotFound ELSE share_category

update_share_item_status(items, share_item, status) ==
    [items EXCEPT ![share_item] = status]

\* try_except without the except clause: the exception leaves the loop.
try_except_reraise(raised, succeeded, failed) ==
    [status |-> IF raised THEN failed ELSE succeeded, propagates |-> raised]

\* try_except whose except clause writes no status.
try_except_silent(raised, succeeded, failed) ==
    [status |-> IF raised THEN Share_In_Progress ELSE succeeded, propagates |-> FALSE]

\* try: ...; update(succeeded)  except Exception: update(failed); alarm
\* propagates: the exception leaves the loop.
try_except(raised, succeeded, failed) ==
    [status |-> IF raised THEN failed ELSE succeeded, propagates |-> FALSE]

\* ------------------------------------------------------------ control flow
Fails(S) == {"none"} \cup (IF faults < MaxFaults THEN S ELSE {})
Charge(fail) == faults' = IF fail = "none" THEN faults ELSE faults + 1

Goto(p) ==
    /\ pc' = p
    /\ result' = IF p = "done" THEN "success" ELSE result
    /\ cause' = cause

Abort(c) == pc' = "error" /\ result' = "error" /\ cause' = c

AfterTables == IF op = "approve" THEN "clean_shared_database" ELSE "delete_resource_links"
FoldersPc == IF shared_folders # <<>> THEN "folders"
             ELSE IF op = "approve" THEN "clean_shared_folders" ELSE "done"
AfterFolders == IF op = "approve" THEN "clean_shared_folders" ELSE "done"

\* The loop over a list moves on, or the phase after it starts.
NextItem(list, loop, after) ==
    IF idx < Len(list) THEN idx' = idx + 1 /\ Goto(loop) ELSE idx' = 1 /\ Goto(after)

\* ============================================================ entry points
\* get_share_data without the membership check.
get_share_data_unchecked(env_group) == FALSE

\* if not target_env_group: raise Exception(...)
get_share_data_raises(env_group) == ~env_group

\* approve_share / reject_share are invoked by the dispatcher: get_share_data
\* resolves the context or raises.  Which tables and folders the store
\* lists for the share's status is the dispatcher's input.
get_share_data(o) ==
    /\ pc \in {"idle", "done", "error"}
    /\ runs < MaxRuns
    /\ runs' = runs + 1
    /\ op' = o
    /\ prev' = Snapshot
    /\ hist' = NoHist /\ last' = NoLast /\ touched' = {}
    /\ revoke_entries' = <<>> /\ idx' = 1
    /\ IF get_share_data_raises(target_env_group)
       THEN /\ shared_tables' = <<>> /\ shared_folders' = <<>>
            /\ Abort("target_env_group")
       ELSE \E ts \in SubLists(TableOrder), fs \in SubLists(FolderOrder) :
               /\ shared_tables' = ts /\ shared_folders' = fs
               /\ pc' = IF ts # <<>> THEN "tables"
                        ELSE IF o = "approve" THEN "clean_shared_database"
                        ELSE "delete_resource_links"
               /\ result' = "none" /\ cause' = "none"
    /\ UNCHANGED << faults, target_env_group, item_status, other_shares, lf, stores,
                    iam_raises, s3_normalises >>

\* ---------------------------------------------------------------- approve
\* share_tables, head of the loop body: get_share_item, Share_In_Progress.
ShareTablesBegin ==
    /\ op = "approve" /\ pc = "tables"
    /\ LET table == shared_tables[idx]
           share_item == get_share_item(item_status, table)
       IN  IF share_item = ObjectNotFound
           THEN Abort(ObjectNotFound) /\ UNCHANGED << item_status, hist >>
           ELSE /\ item_status' = update_share_item_status(item_status, share_item,
                                                           Share_In_Progress)
                /\ hist' = [hist EXCEPT ![share_item] = Append(@, Share_In_Progress)]
                /\ Goto("table_steps")
    /\ last' = NoLast
    /\ UNCHANGED << ctl, idx, faults, revoke_entries, lf, stores, touched >>

\* share_tables, the try/except of the loop body.
ShareTablesSteps ==
    /\ op = "approve" /\ pc = "table_steps"
    /\ \E fail \in Fails(TableFaults) :
          LET table == shared_tables[idx]
              done == share_table_sequence(lf, table, fail)
              legacy == revoke_iamallowedgroups_super_permission_from_table(lf, table, fail)
              out == try_except(done.raised, Share_Succeeded, Share_Failed)
          IN  /\ lf' = done.lf
              /\ item_status' = update_share_item_status(item_status, table, out.status)
              /\ hist' = [hist EXCEPT ![table] = Append(@, out.status)]
              /\ last' = [item |-> table, fail |-> fail, raised |-> done.raised,
                          legacy |-> [absent |-> table \notin lf.everyone,
                                      raised |-> legacy.raised,
                                      batch_raised |-> legacy.batch_raised]]
              /\ touched' = touched \cup {table}
              /\ Charge(fail)
              /\ IF out.propagates
                 THEN Abort("share_tables") /\ idx' = idx
                 ELSE NextItem(shared_tables, "tables", AfterTables)
    /\ UNCHANGED << ctl, revoke_entries, stores >>

\* The external answers a sweep of the shadow database may get: no failure,
\* or one for the revoke of an orphan.
SweepFaults(orphans) ==
    {<<"none", "none">>}
    \cup (IF faults < MaxFaults THEN {"failure", "call_error"} \X orphans ELSE {})

Orphans == {t \in lf.shadow : ~InSeq(t, shared_tables)}

\* clean_shared_database, called by approve_share and by reject_share.
CleanSharedDatabase ==
    /\ pc = "clean_shared_database"
    /\ \E f \in SweepFaults(Orphans), exists \in [Tables -> BOOLEAN] :
          LET swept == clean_shared_database(lf, shared_tables, other_shares, exists,
                                             f[1], f[2])
          IN  /\ lf' = swept.lf
              /\ Charge(f[1])
              /\ IF swept.raised THEN Abort("clean_shared_database")
                 ELSE Goto(IF op = "approve" THEN FoldersPc ELSE "revoke_external")
    /\ touched' = touched \cup Orphans
    /\ last' = NoLast
    /\ UNCHANGED << ctl, idx, revoke_entries, item_status, stores, hist >>

\* share_folders, head of the loop body.
ShareFoldersBegin ==
    /\ op = "approve" /\ pc = "folders"
    /\ LET folder == shared_folders[idx]
           share_item == get_share_item(item_status, folder)
       IN  IF share_item = ObjectNotFound
           THEN Abort(ObjectNotFound) /\ UNCHANGED << item_status, hist >>
           ELSE /\ item_status' = update_share_item_status(item_status, share_item,
                                                           Share_In_Progress)
                /\ hist' = [hist EXCEPT ![share_item] = Append(@, Share_In_Progress)]
                /\ Goto("folder_steps")
    /\ last' = NoLast
    /\ UNCHANGED << ctl, idx, faults, revoke_entries, lf, stores, touched >>

\* share_folders, the try/except of the loop body.
ShareFoldersSteps ==
    /\ op = "approve" /\ pc = "folder_steps"
    /\ \E fail \in Fails(FolderFaults) :
          LET folder == shared_folders[idx]
              done == share_folder_sequence(Docs, folder, fail, iam_raises, s3_normalises)
              out == try_except(done.raised, Share_Succeeded, Share_Failed)
          IN  /\ SetDocs(done.docs)
              /\ item_status' = update_share_item_status(item_status, folder, out.status)
              /\ hist' = [hist EXCEPT ![folder] = Append(@, out.status)]
              /\ last' = [item |-> folder, fail |-> fail, raised |-> done.raised,
                          legacy |-> NoLegacy]
              /\ touched' = touched \cup {folder}
              /\ Charge(fail)
              /\ IF out.propagates
                 THEN Abort("share_folders") /\ idx' = idx
                 ELSE NextItem(shared_folders, "folders", AfterFolders)
    /\ UNCHANGED << ctl, revoke_entries, lf >>

StalePrefixes ==
    {p \in SeqToSet(listed_prefixes(ap_policy, TargetRoleId)) : ~InSeq(p, shared_folders)}

\* clean_shared_folders, then approve_share returns True.
CleanSharedFolders ==
    /\ op = "approve" /\ pc = "clean_shared_folders"
    /\ \E f \in {<<"none", "none">>}
                \cup (IF faults < MaxFaults THEN RevokeFaults \X StalePrefixes ELSE {}) :
          /\ SetDocs(clean_shared_folders(Docs, shared_folders, f[1], f[2],
                                          iam_raises, s3_normalises))
          /\ Charge(f[1])
    /\ touched' = touched \cup StalePrefixes
    /\ Goto("done")
    /\ last' = NoLast
    /\ UNCHANGED << ctl, idx, revoke_entries, item_status, lf, hist >>

\* ----------------------------------------------------------------- reject
\* revoke_resource_links_access_on_target_account, head of the loop body.
RevokeLinksBegin ==
    /\ op = "reject" /\ pc = "tables"
    /\ LET table == shared_tables[idx]
           share_item == get_share_item(item_status, table)
       IN  IF share_item = ObjectNotFound
           THEN Abort(ObjectNotFound) /\ UNCHANGED << item_status, hist >>
           ELSE /\ item_status' = update_share_item_status(item_status, share_item,
                                                           Revoke_In_Progress)
                /\ hist' = [hist EXCEPT ![share_item] = Append(@, Revoke_In_Progress)]
                /\ Goto("table_steps")
    /\ last' = NoLast
    /\ UNCHANGED << ctl, idx, faults, revoke_entries, lf, stores, touched >>

\* revoke_resource_links_access_on_target_account, the try/except of the
\* loop body: the revoke is sent, and a terminal status written, only when
\* Glue.table_exists finds the resource link.
\* revoke_entries is not emptied between the tables: the call
\* holds the entries of the tables before, and the failure reported may be
\* for any entry of the call.
RevokeLinksSteps ==
    /\ op = "reject" /\ pc = "table_steps"
    /\ \E kind \in Fails({"failure", "call_error"}),
          at \in SeqToSet(Append(revoke_entries, shared_tables[idx])) :
          LET table == shared_tables[idx]
              entries == Append(revoke_entries, table)
              answer == batch_revoke_permissions(
                            entries, <<LfResponse(entries, lf.link, kind, at)>>)
              out == try_except(answer.raised, Revoke_Share_Succeeded, Revoke_Share_Failed)
          IN  /\ Charge(kind)
              /\ IF table \in lf.shadow
                 THEN /\ revoke_entries' = entries
                      /\ lf' = [lf EXCEPT !.link = LfRevoked(entries, lf.link, kind, at)]
                      /\ item_status' = update_share_item_status(item_status, table,
                                                                 out.status)
                      /\ hist' = [hist EXCEPT ![table] = Append(@, out.status)]
                      /\ last' = [item |-> table, fail |-> kind, raised |-> answer.raised,
                                  legacy |-> NoLegacy]
                      /\ touched' = touched \cup {table}
                 ELSE /\ last' = [item |-> table, fail |-> kind, raised |-> FALSE,
                                  legacy |-> NoLegacy]
                      /\ UNCHANGED << revoke_entries, lf, item_status, hist, touched >>
              /\ NextItem(shared_tables, "tables", AfterTables)
    /\ UNCHANGED << ctl, stores >>

\* delete_resource_links_on_target_account: Glue.batch_delete_tables
DeleteResourceLinks ==
    /\ op = "reject" /\ pc = "delete_resource_links"
    /\ lf' = [lf EXCEPT !.shadow = @ \ SeqToSet(shared_tables)]
    /\ touched' = touched \cup (lf.shadow \cap SeqToSet(shared_tables))
    /\ Goto("clean_shared_database")
    /\ last' = NoLast
    /\ UNCHANGED << ctl, idx, faults, revoke_entries, item_status, stores, hist >>

\* if not other_approved_share_object_exists(...):
\*     revoke_external_account_access_on_source_account(...)
RevokeExternal ==
    /\ op = "reject" /\ pc = "revoke_external"
    /\ IF other_approved_share_object_exists(other_shares, Environments, TargetEnv) = {}
       THEN \E f \in SweepFaults(SeqToSet(shared_tables)) :
               LET revoked == revoke_external_account_access_on_source_account(
                                  shared_tables, <<>>, lf, f[1], f[2])
               IN  /\ lf' = revoked.lf
                   /\ Charge(f[1])
                   /\ touched' = touched \cup SeqToSet(shared_tables)
                   /\ IF revoked.raised
                      THEN Abort("revoke_external_account_access_on_source_account")
                      ELSE Goto(FoldersPc)
       ELSE Goto(FoldersPc) /\ UNCHANGED << lf, faults, touched >>
    /\ last' = NoLast
    /\ UNCHANGED << ctl, idx, revoke_entries, item_status, stores, hist >>

\* revoke_shared_folders, head of the loop body.
RevokeFoldersBegin ==
    /\ op = "reject" /\ pc = "folders"
    /\ LET folder == shared_folders[idx]
           rejected_item == get_share_item(item_status, folder)
       IN  IF rejected_item = ObjectNotFound
           THEN Abort(ObjectNotFound) /\ UNCHANGED << item_status, hist >>
           ELSE /\ item_status' = update_share_item_status(item_status, rejected_item,
                                                           Revoke_In_Progress)
                /\ hist' = [hist EXCEPT ![rejected_item] = Append(@, Revoke_In_Progress)]
                /\ Goto("folder_steps")
    /\ last' = NoLast
    /\ UNCHANGED << ctl, idx, faults, revoke_entries, lf, stores, touched >>

\* revoke_shared_folders, the try/except of the loop body.
RevokeFoldersSteps ==
    /\ op = "reject" /\ pc = "folder_steps"
    /\ \E fail \in Fails(RevokeFaults) :
          LET folder == shared_folders[idx]
              done == revoke_folder_sequence(Docs, folder, fail, iam_raises, s3_normalises)
              out == try_except(done.raised, Revoke_Share_Succeeded, Revoke_Share_Failed)
          IN  /\ SetDocs(done.docs)
              /\ item_status' = update_share_item_status(item_status, folder, out.status)
              /\ hist' = [hist EXCEPT ![folder] = Append(@, out.status)]
              /\ last' = [item |-> folder, fail |-> fail, raised |-> done.raised,
                          legacy |-> NoLegacy]
              /\ touched' = touched \cup {folder}
              /\ Charge(fail)
              /\ IF out.propagates
                 THEN Abort("revoke_shared_folders") /\ idx' = idx
                 ELSE NextItem(shared_folders, "folders", AfterFolders)
    /\ UNCHANGED << ctl, revoke_entries, lf >>

Next ==
    \/ get_share_data("approve")
    \/ get_share_data("reject")
    \/ ShareTablesBegin
    \/ ShareTablesSteps
    \/ CleanSharedDatabase
    \/ ShareFoldersBegin
    \/ ShareFoldersSteps
    \/ CleanSharedFolders
    \/ RevokeLinksBegin
    \/ RevokeLinksSteps
    \/ DeleteResourceLinks
    \/ RevokeExternal
    \/ RevokeFoldersBegin
    \/ RevokeFoldersSteps

Spec == Init /\ [][Next]_vars

\* ================================================================= claims
IndexIn(list, o) == CHOOSE i \in DOMAIN list : list[i] = o
ListOf(o) == IF o \in Tables THEN shared_tables ELSE shared_folders
Listed == SeqToSet(shared_tables) \cup SeqToSet(shared_folders)

\* The invocation wrote In_Progress and then one terminal status to o.
Settled(o, in_progress, terminal) ==
    /\ Len(hist[o]) = 2
    /\ hist[o][1] = in_progress
    /\ hist[o][2] \in terminal
    /\ item_status[o] = hist[o][2]

\* The invocation has not written to o.
Untouched(o) == hist[o] = <<>> /\ item_status[o] = prev.status[o]

ShareTerminal == {Share_Succeeded, Share_Failed}
RevokeTerminal == {Revoke_Share_Succeeded, Revoke_Share_Failed}

\* C1: in an Approve run, right after the sequence of one item has run, the
\* item is Share_Failed exactly when its own sequence raised, the run has
\* not been aborted and stands at the next item (or the next phase), the
\* items before it keep the terminal status they reached and the items
\* after it are not written yet; and a run that returns has settled every
\* listed item.
C1_FailureIsolated ==
    /\ (op = "approve" /\ last.item # "none") =>
          LET list == ListOf(last.item)
              i == IndexIn(list, last.item)
          IN  /\ item_status[last.item] =
                     IF last.raised THEN Share_Failed ELSE Share_Succeeded
              /\ pc # "error"
              /\ IF i < Len(list)
                 THEN idx = i + 1 /\ pc = IF last.item \in Tables THEN "tables" ELSE "folders"
                 ELSE pc = IF last.item \in Tables THEN "clean_shared_database"
                           ELSE "clean_shared_folders"
              /\ \A j \in 1..(i - 1) : Settled(list[j], Share_In_Progress, ShareTerminal)
              /\ \A j \in (i + 1)..Len(list) : Untouched(list[j])
              /\ last.item \in Tables =>
                     \A f \in SeqToSet(shared_folders) : Untouched(f)
              /\ last.item \in Folders =>
                     \A t \in SeqToSet(shared_tables) :
                         Settled(t, Share_In_Progress, ShareTerminal)
    /\ (op = "approve" /\ pc = "done") =>
          \A o \in Listed : Settled(o, Share_In_Progress, ShareTerminal)

\* A folder's sequence failed and the next folder was shared all the same.
C1_Witness ==
    /\ op = "approve" /\ last.item = "f2" /\ ~last.raised
    /\ hist["f1"] = <<Share_In_Progress, Share_Failed>>
    /\ item_status["f2"] = Share_Succeeded
    /\ \E t \in Tables : item_status[t] = Share_Succeeded

\* The steps of a table's sequence that C2 names.
C2_Steps ==
    { "grant_permissions_to_table", "get_resource_share_invitations",
      "accept_resource_share_invitation", "_create_table",
      "grant_permissions_to_database", "grant_resource_link_permission",
      "grant_resource_link_permission_on_target" }

\* C2: a table of an Approve run one of whose steps failed ends in
\* Share_Failed.
C2_FailedStepFailsTable ==
    (op = "approve" /\ last.item \in Tables /\ last.fail \in C2_Steps)
        => item_status[last.item] = Share_Failed

\* C3: every item an Approve run writes to gets Share_In_Progress and then at
\* most one terminal status, its stored status is the one written last, and
\* when the run has ended (returned or raised) none is left in progress.
C3_ShareStatusSequence ==
    op = "approve" =>
        /\ \A o \in Objects :
              /\ \/ hist[o] = <<>>
                 \/ hist[o] = <<Share_In_Progress>>
                 \/ Settled(o, Share_In_Progress, ShareTerminal)
              /\ hist[o] # <<>> => item_status[o] = hist[o][Len(hist[o])]
        /\ pc \in {"done", "error"} => \A o \in Objects : Len(hist[o]) # 1

\* A run has ended with one item failed and another succeeded.
C3_Witness ==
    /\ op = "approve" /\ pc = "done"
    /\ \E o \in Objects : hist[o] = <<Share_In_Progress, Share_Failed>>
    /\ \E o \in Objects : hist[o] = <<Share_In_Progress, Share_Succeeded>>

\* C4: when a Reject run has ended, every table item it moved to
\* Revoke_In_Progress is in Revoke_Share_Succeeded or Revoke_Share_Failed.
C4_RevokeStatusSequence ==
    (op = "reject" /\ pc \in {"done", "error"}) =>
        \A t \in Tables :
            hist[t] # <<>> => Settled(t, Revoke_In_Progress, RevokeTerminal)

\* The context is resolved and every listed object has an item row.
ContextResolved ==
    /\ target_env_group
    /\ \A o \in Listed : item_status[o] # NoRow

\* C5: an Approve run whose context is resolved and whose objects all have
\* an item row never raises out of the invocation.
C5_ApproveReportsSuccess ==
    (op = "approve" /\ ContextResolved) => pc # "error"

\* C6: a Reject run whose context is resolved and whose objects all have an
\* item row never raises out of the invocation, so that its folders are
\* processed.
C6_RejectReachesFolders ==
    (op = "reject" /\ ContextResolved) => pc # "error"

\* C7: when the target team's environment membership record is missing, an
\* invocation has raised in get_share_data and has written no item status,
\* issued no mutating call and changed no store.
C7_MissingGroupFailsFast ==
    (~target_env_group /\ op # "none") =>
        /\ pc = "error" /\ result = "error" /\ cause = "target_env_group"
        /\ hist = NoHist /\ item_status = prev.status
        /\ touched = {}
        /\ Docs = prev.docs /\ lf = EmptyLF

C7_Witness == ~target_env_group /\ op = "reject" /\ pc = "error" /\ runs = 2

\* C8: an object that has no item row in the share keeps having none, is
\* never written a status and no mutating call is issued for it; the
\* invocation that looks it up raises ObjectNotFound there, and has written
\* to no object listed after it.
C8_NoRowNeverProcessed ==
    /\ \A o \in Objects :
          prev.status[o] = NoRow =>
              /\ item_status[o] = NoRow /\ hist[o] = <<>> /\ o \notin touched
              /\ pc = "table_steps" => shared_tables[idx] # o
              /\ pc = "folder_steps" => shared_folders[idx] # o
    /\ cause = ObjectNotFound =>
          /\ pc = "error" /\ result = "error"
          /\ \E o \in Listed :
                /\ item_status[o] = NoRow
                /\ idx \in DOMAIN ListOf(o) /\ ListOf(o)[idx] = o
                /\ \A j \in idx..Len(ListOf(o)) : Untouched(ListOf(o)[j])
                /\ o \in Tables => \A f \in SeqToSet(shared_folders) : Untouched(f)

\* The lookup of t2 was fatal after t1 had been processed.
C8_Witness ==
    /\ cause = ObjectNotFound /\ item_status["t2"] = NoRow
    /\ Len(hist["t1"]) = 2 /\ shared_folders # <<>>

\* Two states of the four documents with the same number of statements and
\* the same resource and prefix lists.
SameStatements(d, e) ==
    /\ Len(d.bucket) = Len(e.bucket)
    /\ d.role = e.role
    /\ d.ap = e.ap
    /\ d.appol.exists = e.appol.exists
    /\ Len(d.appol.stmts) = Len(e.appol.stmts)
    /\ \A i \in DOMAIN d.appol.stmts :
          /\ d.appol.stmts[i].Sid = e.appol.stmts[i].Sid
          /\ d.appol.stmts[i].vals = e.appol.stmts[i].vals
    /\ d.key.exists = e.key.exists
    /\ Len(d.key.stmts) = Len(e.key.stmts)

\* An Approve run has returned, and so had the invocation before it, which
\* was an Approve of the same tables and folders; no external call failed.
Reapproved ==
    /\ op = "approve" /\ pc = "done"
    /\ prev.op = "approve" /\ prev.result = "success"
    /\ prev.tables = shared_tables /\ prev.folders = shared_folders
    /\ faults = 0

\* C9: after Approve and Approve again of the same share, every item that
\* was Share_Succeeded is still Share_Succeeded, and the bucket policy, the
\* access point policy, the key policy and the role policy have the number
\* of statements and the resource and prefix lists they had after the first.
C9_ReapproveIdempotent ==
    Reapproved =>
        /\ \A o \in Objects :
              prev.status[o] = Share_Succeeded => item_status[o] = Share_Succeeded
        /\ SameStatements(prev.docs, Docs)

\* Two tables and two folders were approved twice.
C9_Witness ==
    /\ Reapproved
    /\ Len(shared_tables) = 2 /\ Len(shared_folders) = 2
    /\ \A o \in Objects : prev.status[o] = Share_Succeeded
    /\ Len(ap_policy.stmts) = 3 /\ Len(key_policy.stmts) = 2

\* ============================================ single policy-mutation steps
\* One folder grant step applied to a starting document, and applied again
\* with the same inputs.  op is the step, shared_folders[1] the prefix,
\* last.fail the external call that fails (the same in both applications),
\* prev.start the starting documents and prev.docs the documents the first
\* application left.
MaxStatements == 2

PolicySteps ==
    { "manage_bucket_policy", "grant_target_role_access_policy",
      "manage_access_point_and_policy", "update_dataset_bucket_key_policy" }

\* The step of the folder revoke sequence that edits the role policy.
RevokeSteps == { "delete_target_role_access_policy" }

BaseDocs ==
    [bucket |-> <<"NoSid">>, role |-> NoRolePolicy, ap |-> FALSE, appol |-> NoPolicy,
     key |-> Policy(<< [Sid |-> "KeyAdmin", users |-> {"ADMIN"}] >>)]

SeqsUpTo(S, n) == UNION {[1..k -> S] : k \in 0..n}

StartBucketPolicies ==
    SeqsUpTo({"NoSid", "AllowAllToAdmin", "DelegateAccessToAccessPoint"}, MaxStatements)

StartRolePolicies ==
    {NoRolePolicy} \cup
    { RolePolicy(res) : res \in
        { target_resources(OtherBucket, <<"ap2">>),
          target_resources(BucketName, AccessPointName),
          target_resources(OtherBucket, <<"ap2">>)
              \o target_resources(BucketName, AccessPointName),
          target_resources(OtherBucket \o BucketName, <<"ap2">>),
          <<BucketArn(BucketName)>>,
          <<>> } }

\* The values of one statement of the access point policy: a list of up to
\* MaxStatements prefixes, or one prefix held as a scalar.
StartValues ==
    {[scalar |-> FALSE, vals |-> l] :
        l \in {l \in SeqsUpTo(Folders, MaxStatements) :
                  \A i, j \in DOMAIN l : i # j => l[i] # l[j]}}
    \cup {[scalar |-> TRUE, vals |-> <<f>>] : f \in Folders}

Statement(sid, v) == [Sid |-> sid, scalar |-> v.scalar, vals |-> v.vals]

\* The statements of a role in an access point policy: none, the pair
\* <rid>0 and <rid>1, or <rid>0 alone.
StartRoleStatements(rid) ==
    { <<>> }
    \cup {<<Statement(Sid0(rid), v), Statement(Sid1(rid), w)>> :
              v \in StartValues, w \in StartValues}
    \cup {<<Statement(Sid0(rid), v)>> : v \in StartValues}

OtherRoleStatements ==
    { <<>>,
      <<Statement(Sid0("OTHER"), [scalar |-> FALSE, vals |-> <<"f1">>]),
        Statement(Sid1("OTHER"), [scalar |-> FALSE, vals |-> <<"f1">>])>> }

StartAccessPoints ==
    { [ap |-> FALSE, appol |-> NoPolicy], [ap |-> TRUE, appol |-> NoPolicy] }
    \cup { [ap |-> TRUE, appol |-> Policy(own \o admin \o other)] :
              own \in StartRoleStatements(TargetRoleId),
              admin \in {<<>>, <<admin_statement>>},
              other \in OtherRoleStatements }
    \cup { [ap |-> TRUE, appol |-> Policy(<<admin_statement>> \o other \o own)] :
              own \in StartRoleStatements(TargetRoleId) \ {<<>>},
              other \in OtherRoleStatements }

StartKeyPolicies ==
    { NoPolicy, Policy(<<>>) }
    \cup { Policy(<< [Sid |-> "KeyAdmin", users |-> admins] >> \o own) :
              admins \in {{"ADMIN"}, {"ADMIN", TargetRoleId}},
              own \in {<<>>, <<KeyStatement(TargetRoleId)>>, <<KeyStatement("OTHER")>>} }

StartDocs(step) ==
    IF step = "manage_bucket_policy"
    THEN {[BaseDocs EXCEPT !.bucket = b] : b \in StartBucketPolicies}
    ELSE IF step \in {"grant_target_role_access_policy", "delete_target_role_access_policy"}
    THEN {[BaseDocs EXCEPT !.role = r] : r \in StartRolePolicies}
    ELSE IF step = "manage_access_point_and_policy"
    THEN {[BaseDocs EXCEPT !.ap = a.ap, !.appol = a.appol] : a \in StartAccessPoints}
    ELSE {[BaseDocs EXCEPT !.key = k] : k \in StartKeyPolicies}

StepFaults(step) ==
    IF step = "manage_bucket_policy" THEN {"none", "create_bucket_policy"}
    ELSE IF step = "grant_target_role_access_policy" THEN {"none", "update_role_policy"}
    ELSE IF step = "delete_target_role_access_policy"
    THEN {"none", "update_role_policy", "delete_role_policy"}
    ELSE IF step = "manage_access_point_and_policy"
    THEN {"none", "create_bucket_access_point", "attach_access_point_policy"}
    ELSE {"none", "put_key_policy"}

InitStep ==
    /\ op \in PolicySteps \cup RevokeSteps /\ pc = "start"
    /\ idx = 1 /\ runs = 0 /\ faults = 0 /\ result = "none" /\ cause = "none"
    /\ shared_tables = <<>> /\ revoke_entries = <<>>
    /\ \E f \in Folders : shared_folders = <<f>>
    /\ target_env_group = TRUE
    /\ item_status = [o \in Objects |-> PendingApproval]
    /\ other_shares = {} /\ lf = EmptyLF
    /\ \E d \in StartDocs(op) :
          /\ bucket_policy = d.bucket /\ role_policy = d.role
          /\ ap_exists = d.ap /\ ap_policy = d.appol /\ key_policy = d.key
    /\ iam_raises \in (IF op \in {"grant_target_role_access_policy",
                                  "delete_target_role_access_policy"}
                        THEN BOOLEAN ELSE {TRUE})
    /\ s3_normalises \in (IF op = "manage_access_point_and_policy" THEN BOOLEAN ELSE {TRUE})
    /\ hist = NoHist /\ touched = {}
    /\ \E fail \in StepFaults(op) :
          last = [item |-> shared_folders[1], fail |-> fail, raised |-> FALSE,
                  legacy |-> NoLegacy]
    /\ prev = [op |-> "none", result |-> "none", tables |-> <<>>, folders |-> <<>>,
               status |-> item_status, docs |-> Docs, start |-> Docs]

\* The step op is applied to the stored documents, a first or a second time.
StepBegin(step) == op = step /\ pc \in {"start", "once"}

StepEnd(raised) ==
    /\ pc' = IF pc = "start" THEN "once" ELSE "twice"
    /\ last' = [last EXCEPT !.raised = raised]
    /\ prev' = IF pc = "start" THEN [prev EXCEPT !.docs = Docs'] ELSE prev
    /\ UNCHANGED << op, idx, runs, faults, result, cause, shared_tables, shared_folders,
                    revoke_entries, target_env_group, item_status, other_shares, lf,
                    iam_raises, s3_normalises, hist, touched >>

ApplyManageBucketPolicy ==
    /\ StepBegin("manage_bucket_policy")
    /\ LET r == manage_bucket_policy(bucket_policy, last.fail)
       IN  /\ bucket_policy' = r.doc
           /\ UNCHANGED << role_policy, ap_exists, ap_policy, key_policy >>
           /\ StepEnd(r.raised)

ApplyGrantTargetRoleAccessPolicy ==
    /\ StepBegin("grant_target_role_access_policy")
    /\ LET r == grant_target_role_access_policy(role_policy, BucketName, AccessPointName,
                                                last.fail, iam_raises)
       IN  /\ role_policy' = r.doc
           /\ UNCHANGED << bucket_policy, ap_exists, ap_policy, key_policy >>
           /\ StepEnd(r.raised)

ApplyManageAccessPointAndPolicy ==
    /\ StepBegin("manage_access_point_and_policy")
    /\ LET r == manage_access_point_and_policy(ap_exists, ap_policy, TargetRoleId,
                                               shared_folders[1], last.fail, s3_normalises)
       IN  /\ ap_exists' = r.ap
           /\ ap_policy' = r.doc
           /\ UNCHANGED << bucket_policy, role_policy, key_policy >>
           /\ StepEnd(r.raised)

ApplyUpdateDatasetBucketKeyPolicy ==
    /\ StepBegin("update_dataset_bucket_key_policy")
    /\ LET r == update_dataset_bucket_key_policy(key_policy, TargetRoleId, last.fail)
       IN  /\ key_policy' = r.doc
           /\ UNCHANGED << bucket_policy, role_policy, ap_exists, ap_policy >>
           /\ StepEnd(r.raised)

ApplyDeleteTargetRoleAccessPolicy ==
    /\ StepBegin("delete_target_role_access_policy")
    /\ LET r == delete_target_role_access_policy(role_policy, BucketName, AccessPointName,
                                                 last.fail, iam_raises)
       IN  /\ role_policy' = r.doc
           /\ UNCHANGED << bucket_policy, ap_exists, ap_policy, key_policy >>
           /\ StepEnd(r.raised)

NextStep ==
    \/ ApplyManageBucketPolicy
    \/ ApplyGrantTargetRoleAccessPolicy
    \/ ApplyManageAccessPointAndPolicy
    \/ ApplyUpdateDatasetBucketKeyPolicy
    \/ ApplyDeleteTargetRoleAccessPolicy

SpecStep == InitStep /\ [][NextStep]_vars

\* C10: each of manage_bucket_policy, grant_target_role_access_policy,
\* manage_access_point_and_policy and update_dataset_bucket_key_policy,
\* applied a second time with the inputs of the first, leaves every stored
\* document as the first application left it.
C10_StepIdempotent == pc = "twice" => Docs = prev.docs

\* A prefix was added to the role's lists by the first application and the
\* step was applied again.
C10_Witness ==
    /\ pc = "twice" /\ op = "manage_access_point_and_policy"
    /\ last.fail = "none" /\ ~last.raised
    /\ prev.start.appol.exists
    /\ HasSid(prev.start.appol.stmts, Sid0(TargetRoleId))
    /\ ~InSeq(shared_folders[1], BySid(prev.start.appol.stmts, Sid0(TargetRoleId)).vals)
    /\ InSeq(shared_folders[1], BySid(ap_policy.stmts, Sid0(TargetRoleId)).vals)
    /\ Len(BySid(ap_policy.stmts, Sid0(TargetRoleId)).vals) = 2

\* No two statements of the sequence sids carry the same Sid of the set
\* program_sids, the Sids the program writes to the document.
Unique(sids, program_sids) ==
    \A i, j \in DOMAIN sids : (i # j /\ sids[i] \in program_sids) => sids[i] # sids[j]

SidsOf(doc) == [i \in DOMAIN doc.stmts |-> doc.stmts[i].Sid]

\* C11: after any sequence of Approve and Reject runs, at every point of a
\* run, the bucket policy, the access point policy and the key policy hold
\* each of AllowAllToAdmin, DelegateAccessToAccessPoint, <roleId>0,
\* <roleId>1 and <roleId> at most once.
C11_NoDuplicateSid ==
    /\ Unique(bucket_policy, {"AllowAllToAdmin", "DelegateAccessToAccessPoint"})
    /\ Unique(SidsOf(ap_policy), {Sid0(TargetRoleId), Sid1(TargetRoleId), AdminSid})
    /\ Unique(SidsOf(key_policy), {TargetRoleId})

\* Two folders were approved in a second run and every Sid is there once.
C11_Witness ==
    /\ runs = 2 /\ pc = "done" /\ op = "approve" /\ Len(shared_folders) = 2
    /\ \A f \in Folders : item_status[f] = Share_Succeeded
    /\ Len(bucket_policy) = 3
    /\ HasSid(ap_policy.stmts, Sid0(TargetRoleId))
    /\ HasSid(ap_policy.stmts, AdminSid)
    /\ HasSid(key_policy.stmts, TargetRoleId)

\* C12: a table of an Approve run whose source table does not hold the
\* legacy grant to EVERYONE, so that the batch revoke answers with "Grantee
\* has no permissions" / "No permissions revoked" failures only: neither
\* batch_revoke_permissions nor the revoke of the legacy grant raises, and
\* the table is Share_Succeeded when no other call of its sequence fails.
C12_AbsentLegacyGrantTolerated ==
    (op = "approve" /\ last.item \in Tables /\ last.legacy.absent
        /\ last.fail # "revoke_iamallowedgroups") =>
        /\ ~last.legacy.batch_raised
        /\ ~last.legacy.raised
        /\ last.fail = "none" => item_status[last.item] = Share_Succeeded

\* In a first run two tables were shared, the second of which did not
\* hold the legacy grant.
C12_Witness ==
    /\ op = "approve" /\ last.item = "t2" /\ last.legacy.absent /\ last.fail = "none"
    /\ item_status["t2"] = Share_Succeeded /\ "t2" \in lf.source
    /\ item_status["t1"] = Share_Succeeded /\ runs = 1 /\ lf.everyone = {}
    /\ prev.status["t1"] = PendingApproval

\* A second share, Approved for the target environment, references table t.
ReferencedByApprovedShare(t) ==
    \E s \in other_shares : s.status = "Approved" /\ s.env = TargetEnv /\ t \in s.tables

\* C13: no step of a Reject run takes the target account's grant on a source
\* table away while a second share, Approved for the same target
\* environment, references the table.
C13_SharedSourceGrantKept ==
    [][ op = "reject" =>
            \A t \in Tables :
                (ReferencedByApprovedShare(t) /\ t \in lf.source) => t \in lf'.source
      ]_vars

\* A table of two shares was approved in one and rejected in it: the grant
\* on the source table is still there.
C13_Witness ==
    /\ op = "reject" /\ pc = "done" /\ prev.op = "approve"
    /\ InSeq("t2", shared_tables) /\ ReferencedByApprovedShare("t2")
    /\ prev.status["t2"] = Share_Succeeded
    /\ "t2" \in lf.source /\ "t2" \notin lf.shadow

\* C14: a Reject run that has returned without a failing external call,
\* while no other share is Approved for the target environment (shares
\* Approved for other environments do not count), has left the target
\* account no grant on the source table of any rejected table.
C14_RevokedWhenNoOtherShare ==
    (op = "reject" /\ pc = "done" /\ faults = 0
        /\ ~\E s \in other_shares : s.status = "Approved" /\ s.env = TargetEnv)
        => \A t \in SeqToSet(shared_tables) : t \notin lf.source

\* C15: a sweep of the shadow database, for the shadow content and the
\* shared tables A the run has, leaves every object of A where it is, with
\* the grants it has, and a sweep that returns has deleted from the shadow
\* database every object that is not in A.
C15_SweepRemovesOrphansOnly ==
    [][ pc = "clean_shared_database" =>
            LET A == SeqToSet(shared_tables)
            IN  /\ \A t \in A :
                      /\ t \in lf.shadow <=> t \in lf'.shadow
                      /\ t \in lf.source <=> t \in lf'.source
                      /\ t \in lf.link <=> t \in lf'.link
                /\ pc' # "error" => \A t \in lf.shadow \ A : t \notin lf'.shadow
      ]_vars

\* The sweep of a second Approve has removed t2, not shared any more, and
\* its grant, and has left t1.
C15_Witness ==
    /\ op = "approve" /\ runs = 2 /\ shared_tables = <<"t1">>
    /\ pc \in {"folders", "clean_shared_folders"}
    /\ "t2" \in touched /\ "t2" \notin lf.shadow /\ "t2" \notin lf.source
    /\ "t1" \in lf.shadow /\ "t1" \in lf.source /\ "t1" \in lf.link

\* C16: after the bucket policy step has completed without error, whatever
\* the bucket policy was when it began, the bucket policy holds a statement
\* with Sid AllowAllToAdmin and a statement with Sid
\* DelegateAccessToAccessPoint.
C16_BothSidsAfterStep ==
    (op = "manage_bucket_policy" /\ pc # "start" /\ ~last.raised) =>
        /\ InSeq("AllowAllToAdmin", bucket_policy)
        /\ InSeq("DelegateAccessToAccessPoint", bucket_policy)

\* C17: after the target role policy step has completed without error, no
\* call of it having failed, the inline policy of the target role lists the
\* bucket ARN, the bucket ARN/*, the access point ARN and the access point
\* ARN/*, and every resource it listed when the step began; a policy written
\* where none was lists exactly the four.
C17_RolePolicyListsResources ==
    (/\ op = "grant_target_role_access_policy" /\ pc # "start"
     /\ ~last.raised /\ last.fail = "none") =>
        /\ role_policy.exists
        /\ \A r \in SeqToSet(target_resources(BucketName, AccessPointName)) :
              InSeq(r, role_policy.res)
        /\ \A r \in SeqToSet(prev.start.role.res) : InSeq(r, role_policy.res)
        /\ ~prev.start.role.exists =>
              role_policy.res = target_resources(BucketName, AccessPointName)

\* The values a policy lists under the statement sid: none when it has no
\* such statement.
ValuesOf(doc, sid) == IF HasSid(doc.stmts, sid) THEN BySid(doc.stmts, sid).vals ELSE <<>>
Occurrences(x, list) == Cardinality({i \in DOMAIN list : list[i] = x})

\* C18: after the access point step for prefix p and role id Rid has
\* completed, the access point exists, its policy has one statement <Rid>0
\* whose prefix list holds p exactly once and one statement <Rid>1 whose
\* resource list holds the resource of p exactly once, the stored fields
\* having been a scalar or a list; every prefix and resource listed for Rid
\* before is still listed; a policy created where none was has the
\* AllowAllToAdmin statement.
C18_AccessPointStep ==
    (op = "manage_access_point_and_policy" /\ pc # "start" /\ ~last.raised) =>
        LET p == shared_folders[1]
            sids == {Sid0(TargetRoleId), Sid1(TargetRoleId)}
        IN  /\ ap_exists /\ ap_policy.exists
            /\ \A sid \in sids :
                  /\ Cardinality({i \in DOMAIN ap_policy.stmts :
                                     ap_policy.stmts[i].Sid = sid}) = 1
                  /\ Occurrences(p, ValuesOf(ap_policy, sid)) = 1
                  /\ \A q \in SeqToSet(ValuesOf(prev.start.appol, sid)) :
                        InSeq(q, ValuesOf(ap_policy, sid))
            /\ ~prev.start.appol.exists => HasSid(ap_policy.stmts, AdminSid)

\* The step has added its prefix to a policy that held one other prefix of
\* the role as a scalar string.
C18_Witness ==
    /\ op = "manage_access_point_and_policy" /\ pc = "once" /\ ~last.raised
    /\ HasSid(prev.start.appol.stmts, Sid0(TargetRoleId))
    /\ BySid(prev.start.appol.stmts, Sid0(TargetRoleId)).scalar
    /\ ~InSeq(shared_folders[1], ValuesOf(prev.start.appol, Sid0(TargetRoleId)))
    /\ Len(ValuesOf(ap_policy, Sid0(TargetRoleId))) = 2
    /\ Len(ValuesOf(ap_policy, Sid1(TargetRoleId))) = 2

\* The key policy has the decrypt statement of the role: Sid the role id,
\* condition aws:userId "<role id>:*".
HasKeyStatement(doc, rid) == \E i \in DOMAIN doc.stmts : doc.stmts[i] = KeyStatement(rid)

C20_RoleStatementsRemoved ==
    (/\ op = "reject" /\ pc = "done" /\ faults = 0
     /\ prev.op = "approve" /\ prev.result = "success"
     /\ prev.folders = shared_folders /\ shared_folders # <<>>
     /\ \A f \in SeqToSet(shared_folders) : prev.status[f] = Share_Succeeded
     /\ SeqToSet(listed_prefixes(prev.docs.appol, TargetRoleId)) = SeqToSet(shared_folders)) =>
        /\ ~HasSid(ap_policy.stmts, Sid0(TargetRoleId))
        /\ ~HasSid(ap_policy.stmts, Sid1(TargetRoleId))

\* C21: in the revoke of a folder in which no call fails, the access point
\* is deleted exactly when its policy, the statements of the role removed,
\* holds nothing but the admin statement.  When it is deleted the role
\* policy loses the four resources of the bucket and the access point and
\* keeps the others, and is itself deleted when nothing is left, and the key
\* policy loses the decrypt statement of the role and keeps the others.
\* When it is not deleted the role policy and the key policy are as they
\* were.
C21_AccessPointCleanup ==
    [][ (/\ op = "reject" /\ pc = "folder_steps"
         /\ last'.item = shared_folders[idx] /\ last'.fail = "none") =>
            LET removal == delete_access_point_policy(ap_policy, TargetRoleId,
                                                      shared_folders[idx], "none",
                                                      s3_normalises)
                deleted == ap_exists /\ ~ap_exists'
                ours == SeqToSet(target_resources(BucketName, AccessPointName))
                others == SelectSeq(role_policy.res, LAMBDA r : r \notin ours)
            IN  /\ ~removal.raised =>
                      (deleted <=> \A i \in DOMAIN removal.doc.stmts :
                                       removal.doc.stmts[i].Sid = AdminSid)
                /\ deleted =>
                      /\ role_policy'.res = others
                      /\ role_policy'.exists <=> others # <<>>
                      /\ key_policy'.stmts =
                             SelectSeq(key_policy.stmts,
                                       LAMBDA st : st # KeyStatement(TargetRoleId))
                /\ ~deleted => role_policy' = role_policy /\ key_policy' = key_policy
      ]_vars

\* The revoke of the one folder of an approved share has deleted the access
\* point, the role policy and the decrypt statement.
C21_Witness ==
    /\ op = "reject" /\ last.item \in Folders /\ ~last.raised /\ last.fail = "none"
    /\ prev.op = "approve" /\ prev.docs.ap /\ ~ap_exists
    /\ prev.docs.role.exists /\ ~role_policy.exists
    /\ HasKeyStatement(prev.docs.key, TargetRoleId)
    /\ ~HasKeyStatement(key_policy, TargetRoleId)

\* ------------------------------------------------------- batch_revoke_permissions
\* batch_revoke_permissions applied to a list of entries and to the answers
\* of Lake Formation to its calls.  revoke_entries is the list (entry i is
\* the number i), prev.resp the answer to each chunk, hist the chunks sent
\* and last what the function did.
MaxEntries == 45

\* Failures a response reports for an entry: the two tolerated messages, alone
\* and inside a longer message, another message, another error code.
ReportedFailures(entry) ==
    { [entry |-> entry, code |-> c, message |-> m] :
        c \in {"InvalidInputException", "AccessDeniedException"},
        m \in { <<"Grantee has no permissions">>,
                <<"Entry", "No permissions revoked", "for principal">>,
                <<"Insufficient permissions">> } }

\* The answers to the call for one chunk: the call raises ClientError, or
\* reports nothing, or reports a failure for its first entry, or one for its
\* first and one for its last.
Responses(chunk) ==
    { [error |-> TRUE, failures |-> <<>>], [error |-> FALSE, failures |-> <<>>] }
    \cup { [error |-> FALSE, failures |-> <<f>>] : f \in ReportedFailures(chunk[1]) }
    \cup { [error |-> FALSE, failures |-> <<f, g>>] :
              f \in {x \in ReportedFailures(chunk[1]) : Benign(x)},
              g \in {x \in ReportedFailures(chunk[Len(chunk)]) :
                        x.code = "AccessDeniedException" \/ Benign(x)} }

InitBatch ==
    /\ op = "batch_revoke_permissions" /\ pc = "start"
    /\ idx = 1 /\ runs = 0 /\ faults = 0 /\ result = "none" /\ cause = "none"
    /\ shared_tables = <<>> /\ shared_folders = <<>>
    /\ \E n \in 0..MaxEntries : revoke_entries = [i \in 1..n |-> i]
    /\ target_env_group = TRUE
    /\ item_status = [o \in Objects |-> PendingApproval]
    /\ other_shares = {} /\ lf = EmptyLF
    /\ bucket_policy = BaseDocs.bucket /\ role_policy = BaseDocs.role
    /\ ap_exists = BaseDocs.ap /\ ap_policy = BaseDocs.appol /\ key_policy = BaseDocs.key
    /\ iam_raises = TRUE /\ s3_normalises = TRUE
    /\ hist = <<>> /\ touched = {}
    /\ last = [raised |-> FALSE, called |-> 0, failures |-> <<>>]
    /\ LET chunks == entries_chunks(revoke_entries)
       IN  \E resp \in [DOMAIN chunks -> UNION {Responses(chunks[i]) : i \in DOMAIN chunks}] :
              /\ \A i \in DOMAIN chunks : resp[i] \in Responses(chunks[i])
              /\ prev = [resp |-> resp]

\* One call of batch_revoke_permissions(client, accountid, entries).
ApplyBatchRevokePermissions ==
    /\ op = "batch_revoke_permissions" /\ pc = "start"
    /\ LET answer == batch_revoke_permissions(revoke_entries, prev.resp)
       IN  /\ last' = answer
           /\ hist' = SubSeq(entries_chunks(revoke_entries), 1, answer.called)
           /\ result' = IF answer.raised THEN "error" ELSE "success"
    /\ pc' = "done"
    /\ UNCHANGED << op, idx, runs, faults, cause, shared_tables, shared_folders,
                    revoke_entries, target_env_group, item_status, other_shares, lf,
                    stores, iam_raises, s3_normalises, touched, prev >>

NextBatch == ApplyBatchRevokePermissions

SpecBatch == InitBatch /\ [][NextBatch]_vars

RECURSIVE Flatten(_)
Flatten(lists) == IF lists = <<>> THEN <<>> ELSE Head(lists) \o Flatten(Tail(lists))

AllAnswered == \A i \in DOMAIN prev.resp : ~prev.resp[i].error

\* C22: batch_revoke_permissions, every call of which is answered, sends
\* ceil(n/20) chunks for a list of n entries, each of at most 20 entries,
\* one call per chunk, and the chunks in the order sent make up the list:
\* consecutive, every entry in exactly one chunk.
C22_ChunksOfTwenty ==
    (op = "batch_revoke_permissions" /\ pc = "done" /\ AllAnswered) =>
        LET n == Len(revoke_entries)
        IN  /\ Len(hist) * 20 >= n /\ (Len(hist) - 1) * 20 < n
            /\ last.called = Len(hist)
            /\ \A i \in DOMAIN hist : Len(hist[i]) >= 1 /\ Len(hist[i]) <= 20
            /\ Flatten(hist) = revoke_entries
            /\ n = 45 => Len(hist) = 3

\* 45 entries were sent in chunks of 20, 20 and 5.
C22_Witness ==
    /\ op = "batch_revoke_permissions" /\ pc = "done" /\ AllAnswered
    /\ Len(revoke_entries) = 45
    /\ <<Len(hist[1]), Len(hist[2]), Len(hist[3])>> = <<20, 20, 5>>

\* A failure that is tolerated: error code InvalidInputException and a
\* message that contains one of the two texts.
Tolerated(failure) ==
    /\ failure.code = "InvalidInputException"
    /\ \E text \in {"Grantee has no permissions", "No permissions revoked"} :
          \E i \in DOMAIN failure.message : failure.message[i] = text

\* The failures the answered calls have reported.
Reported ==
    UNION { {prev.resp[i].failures[j] : j \in DOMAIN prev.resp[i].failures} :
                i \in {k \in 1..Len(hist) : ~prev.resp[k].error} }

\* C23: batch_revoke_permissions raises exactly when a failure reported by
\* its revoke calls is not tolerated; with none reported, or tolerated ones
\* only, it does not raise.
C23_RaisesOnNonBenign ==
    (op = "batch_revoke_permissions" /\ pc = "done") =>
        (last.raised <=> \E failure \in Reported : ~Tolerated(failure))

\* Three calls reported tolerated failures only, one inside a longer
\* message, and the function returned.
C23_Witness ==
    /\ op = "batch_revoke_permissions" /\ pc = "done" /\ ~last.raised
    /\ Len(hist) = 3 /\ Len(last.failures) >= 3
    /\ \E failure \in Reported : Len(failure.message) > 1

\* ------------------------------------------------------------- one table
\* The try block of share_tables for one table, an action per step.  hist
\* is the list of the external calls issued, prev holds what approve_share
\* resolved and last.fail the call that fails, if one does.
InitTable ==
    /\ op = "share_tables" /\ pc = TableSteps[1]
    /\ idx = 1 /\ runs = 0 /\ faults = 0 /\ result = "none" /\ cause = "none"
    /\ \E t \in Tables :
          /\ shared_tables = <<t>>
          /\ item_status = [o \in Objects |->
                               IF o = t THEN Share_In_Progress ELSE PendingApproval]
          /\ \E everyone \in SUBSET {t}, shadow \in SUBSET {t},
                accepted \in SUBSET SeqToSet(Invitations) :
                lf = [source |-> {}, shadow |-> shadow, link |-> {},
                      everyone |-> everyone, accepted |-> accepted]
          /\ \E fail \in {"none"} \cup (TableFaults \ {"already_accepted"}) :
                last = [item |-> t, fail |-> fail, raised |-> FALSE, legacy |-> NoLegacy]
    /\ shared_folders = <<>> /\ revoke_entries = <<>>
    /\ target_env_group = TRUE /\ other_shares = {}
    /\ bucket_policy = BaseDocs.bucket /\ role_policy = BaseDocs.role
    /\ ap_exists = BaseDocs.ap /\ ap_policy = BaseDocs.appol /\ key_policy = BaseDocs.key
    /\ iam_raises = TRUE /\ s3_normalises = TRUE
    /\ hist = <<>> /\ touched = {}
    /\ \E dashboardsEnabled \in BOOLEAN, group \in {"found", "none"} :
          prev = [principals |->
                      add_quicksight_group_to_shared_with_principals(dashboardsEnabled,
                                                                     group),
                  dashboardsEnabled |-> dashboardsEnabled, group |-> group,
                  accepted |-> lf.accepted]

TableStep(step, done) ==
    /\ op = "share_tables" /\ pc = step
    /\ lf' = done.lf
    /\ hist' = hist \o done.calls
    /\ pc' = next_step(step, done.raised)
    /\ last' = [last EXCEPT !.raised = done.raised]
    /\ UNCHANGED << op, idx, runs, faults, result, cause, shared_tables, shared_folders,
                    revoke_entries, target_env_group, item_status, other_shares,
                    stores, iam_raises, s3_normalises, touched, prev >>

RevokeLegacyGrant ==
    LET table == shared_tables[idx]
        revoked == revoke_iamallowedgroups_super_permission_from_table(lf, table, last.fail)
    IN  TableStep("revoke_iamallowedgroups_super_permission_from_table",
                  StepResult(revoked.lf,
                             <<Call("batch_revoke_permissions", "EVERYONE",
                                    <<"Table", "source", table>>, {"ALL"})>>,
                             revoked.raised))

GrantPermissionsToTable ==
    TableStep("grant_permissions_to_table",
              grant_permissions_to_table(lf, "target-account", shared_tables[idx],
                                         {"DESCRIBE", "SELECT"}, last.fail))

AcceptRamInvitation ==
    TableStep("accept_ram_invitation", accept_ram_invitation_calls(lf, last.fail))

CreateTable ==
    LET table == shared_tables[idx]
        call == Call("_create_table", "", <<"Table", "shared", table>>, {})
    IN  TableStep("_create_table",
                  IF last.fail = "_create_table" THEN StepResult(lf, <<call>>, TRUE)
                  ELSE StepResult([lf EXCEPT !.shadow = @ \cup {table}], <<call>>, FALSE))

GrantTargetPrincipals ==
    TableStep("grant_target_principals",
              grant_target_principals(lf, prev.principals, shared_tables[idx], last.fail))

\* The last statement of the try block, or the except clause.
WriteTableStatus ==
    /\ op = "share_tables" /\ pc \in {"succeeded", "except"}
    /\ LET out == try_except(pc = "except", Share_Succeeded, Share_Failed)
       IN  item_status' = update_share_item_status(item_status, shared_tables[idx],
                                                   out.status)
    /\ pc' = "done"
    /\ UNCHANGED << op, idx, runs, faults, result, cause, shared_tables, shared_folders,
                    revoke_entries, target_env_group, other_shares, lf, stores,
                    iam_raises, s3_normalises, hist, last, touched, prev >>

NextTable ==
    \/ RevokeLegacyGrant
    \/ GrantPermissionsToTable
    \/ AcceptRamInvitation
    \/ CreateTable
    \/ GrantTargetPrincipals
    \/ WriteTableStatus

SpecTable == InitTable /\ [][NextTable]_vars

\* The invitations whose acceptance was called.
AcceptCalled ==
    {hist[i].resource : i \in {k \in DOMAIN hist :
                                  hist[k].call = "accept_resource_share_invitation"}}

AfterAccept == pc \in {"_create_table", "grant_target_principals", "succeeded", "except", "done"}

\* C24: while a table is shared, with invitations whose acceptance is
\* answered 'already accepted', the acceptance does not raise, the
\* acceptance of every other invitation is still called and the invitation
\* accepted, and with no failing call the item ends Share_Succeeded; an
\* acceptance that fails with another error ends the item Share_Failed.
C24_AlreadyAcceptedIsSuccess ==
    op = "share_tables" =>
        /\ (/\ prev.accepted # {} /\ AfterAccept
            /\ last.fail \notin {"get_resource_share_invitations",
                                 "accept_resource_share_invitation"}) =>
                /\ AcceptCalled = SeqToSet(Invitations)
                /\ lf.accepted = SeqToSet(Invitations)
                /\ pc = "_create_table" => ~last.raised
                /\ (pc = "done" /\ last.fail = "none") =>
                       item_status[shared_tables[1]] = Share_Succeeded
        /\ (pc = "done" /\ last.fail = "accept_resource_share_invitation") =>
               item_status[shared_tables[1]] = Share_Failed

\* The first invitation was accepted before, the second was not: the table
\* is shared and both are accepted.
C24_Witness ==
    /\ op = "share_tables" /\ pc = "done" /\ last.fail = "none"
    /\ prev.accepted = {Invitations[1]}
    /\ AcceptCalled = SeqToSet(Invitations) /\ lf.accepted = SeqToSet(Invitations)
    /\ item_status[shared_tables[1]] = Share_Succeeded

\* The step of the claim's list a call belongs to.
StepOf(c) ==
    IF c.call = "batch_revoke_permissions" THEN 1
    ELSE IF c.call = "grant_permissions" /\ c.principal = "target-account" THEN 2
    ELSE IF c.call \in {"get_resource_share_invitations",
                        "accept_resource_share_invitation"} THEN 3
    ELSE IF c.call = "_create_table" THEN 4
    ELSE 5

\* The step in which a failing call raises: none (0) for the calls whose
\* error is logged.
RaisingStep(fail) ==
    IF fail \in {"get_resource_share_invitations", "accept_resource_share_invitation"}
    THEN 3
    ELSE IF fail = "_create_table" THEN 4
    ELSE IF fail = "grant_resource_link_permission_on_target" THEN 5
    ELSE 0

\* C29: the calls for a table come in the order revoke of the legacy grant,
\* grant on the source table to the target account, acceptance of the
\* invitations, creation of the resource link, grants to the target
\* principals; a table whose steps did not raise got all five; once a step
\* raised no call of a later step is issued.
C29_TableStepOrder ==
    op = "share_tables" =>
        /\ \A i, j \in DOMAIN hist : i < j => StepOf(hist[i]) <= StepOf(hist[j])
        /\ \A i \in DOMAIN hist : \A k \in 1..(StepOf(hist[i]) - 1) :
              \E j \in 1..i : StepOf(hist[j]) = k
        /\ pc = "succeeded" => {StepOf(hist[i]) : i \in DOMAIN hist} = 1..5
        /\ RaisingStep(last.fail) # 0 =>
              \A i \in DOMAIN hist : StepOf(hist[i]) <= RaisingStep(last.fail)
        /\ pc = "except" => last.raised /\ RaisingStep(last.fail) # 0

\* The creation of the resource link raised: the item is Share_Failed and no
\* grant to a target principal was called.
C29_Witness ==
    /\ op = "share_tables" /\ pc = "done" /\ last.fail = "_create_table"
    /\ {StepOf(hist[i]) : i \in DOMAIN hist} = 1..4
    /\ item_status[shared_tables[1]] = Share_Failed

\* The permissions the calls grant to a principal on a resource.
GrantedOn(principal, kind, database) ==
    UNION {hist[i].permissions :
              i \in {k \in DOMAIN hist : /\ hist[k].call = "grant_permissions"
                                         /\ hist[k].principal = principal
                                         /\ hist[k].resource[1] = kind
                                         /\ hist[k].resource[2] = database}}

\* C30: for a table shared with no failing call, the target role, and the
\* dashboard group when dashboards are enabled and only then, are granted ALL
\* on the shadow database and exactly DESCRIBE and SELECT on the resource
\* link and on the source table with its columns.
C30_TargetPrincipalGrants ==
    (op = "share_tables" /\ pc = "done" /\ last.fail = "none") =>
        /\ InSeq(RoleArn, prev.principals)
        /\ InSeq(GroupArn, prev.principals) => prev.dashboardsEnabled
        /\ \A principal \in SeqToSet(prev.principals) :
              /\ GrantedOn(principal, "Database", "shared") = {"ALL"}
              /\ GrantedOn(principal, "Table", "shared") = {"DESCRIBE", "SELECT"}
              /\ GrantedOn(principal, "TableWithColumns", "source") = {"DESCRIBE", "SELECT"}

\* ------------------------------------------------------- concurrent runs
\* Two runs that work on the same stored document at the same time, an
\* action per external call: each run gets the document, computes the new
\* one from what it got and puts it.  op is the document raced for, pc[p]
\* the position of run p, prev.job[p] what run p does, last[p] the document
\* run p got, prev.start the documents before the runs.
Procs == {1, 2}

\* Run 1 shares a folder; run 2 shares another folder, or revokes any.
AccessPointJobs ==
    { [p \in Procs |-> IF p = 1 THEN [step |-> "manage_access_point_and_policy", prefix |-> f]
                       ELSE [step |-> st, prefix |-> g]] :
        f \in Folders, g \in Folders,
        st \in {"manage_access_point_and_policy", "delete_access_point_policy"} }
    \ { j \in [Procs -> [step : {"manage_access_point_and_policy"}, prefix : Folders]] :
           j[1].prefix = j[2].prefix }

\* The two runs approve shares of the dataset for different target roles.
KeyJobs == { [p \in Procs |-> [rid |-> IF p = 1 THEN TargetRoleId ELSE "OTHER"]] }

\* Access points as the steps leave them: no access point, or a policy with
\* the admin statement and, for the role, nothing or the pair of statements
\* with the same prefixes.
RaceAccessPoints ==
    { a \in StartAccessPoints :
        \/ ~a.ap
        \/ /\ a.appol.exists /\ HasSid(a.appol.stmts, AdminSid)
           /\ a.appol.stmts[1].Sid # AdminSid
           /\ HasSid(a.appol.stmts, Sid0(TargetRoleId)) =>
                 /\ HasSid(a.appol.stmts, Sid1(TargetRoleId))
                 /\ BySid(a.appol.stmts, Sid0(TargetRoleId)).vals
                        = BySid(a.appol.stmts, Sid1(TargetRoleId)).vals
                 /\ BySid(a.appol.stmts, Sid0(TargetRoleId)).scalar
                        = BySid(a.appol.stmts, Sid1(TargetRoleId)).scalar
                 /\ BySid(a.appol.stmts, Sid0(TargetRoleId)).vals # <<>> }

\* What a run's step makes of the access point policy it got.
access_point_job(job, ap, appol, normalises) ==
    IF job.step = "manage_access_point_and_policy"
    THEN manage_access_point_and_policy(ap, appol, TargetRoleId, job.prefix, "none",
                                        normalises)
    ELSE LET r == delete_access_point_policy(appol, TargetRoleId, job.prefix, "none",
                                             normalises)
         IN  ApResult(ap, r.doc, r.raised)

InitRace ==
    /\ op \in {"key_policy", "access_point_policy"}
    /\ pc = [p \in Procs |-> "get"]
    /\ idx = 1 /\ runs = 0 /\ faults = 0 /\ result = "none" /\ cause = "none"
    /\ shared_tables = <<>> /\ shared_folders = <<>> /\ revoke_entries = <<>>
    /\ target_env_group = TRUE
    /\ item_status = [o \in Objects |-> PendingApproval]
    /\ other_shares = {} /\ lf = EmptyLF
    /\ bucket_policy = BaseDocs.bucket /\ role_policy = BaseDocs.role
    /\ iam_raises = TRUE
    /\ hist = NoHist /\ touched = {}
    /\ IF op = "key_policy"
       THEN /\ ap_exists = BaseDocs.ap /\ ap_policy = BaseDocs.appol
            /\ key_policy \in {k \in StartKeyPolicies :
                                 k.exists /\ k.stmts # <<>> /\ k.stmts[1].users = {"ADMIN"}}
            /\ s3_normalises = TRUE
            /\ \E job \in KeyJobs : prev = [job |-> job, start |-> Docs]
       ELSE /\ \E a \in RaceAccessPoints : ap_exists = a.ap /\ ap_policy = a.appol
            /\ key_policy = BaseDocs.key
            /\ s3_normalises \in BOOLEAN
            /\ \E job \in AccessPointJobs : prev = [job |-> job, start |-> Docs]
    /\ last = [p \in Procs |-> NoPolicy]

RaceStep(p, from, to) ==
    /\ pc[p] = from
    /\ pc' = [pc EXCEPT ![p] = to]
    /\ UNCHANGED << op, idx, runs, faults, result, cause, shared_tables, shared_folders,
                    revoke_entries, target_env_group, item_status, other_shares, lf,
                    bucket_policy, role_policy, iam_raises, s3_normalises, hist,
                    touched, prev >>

\* KMS.get_key_policy
GetKeyPolicy(p) ==
    /\ op = "key_policy" /\ RaceStep(p, "get", "put")
    /\ last' = [last EXCEPT ![p] = key_policy]
    /\ UNCHANGED << key_policy, ap_exists, ap_policy >>

\* The rest of update_dataset_bucket_key_policy: KMS.put_key_policy of the
\* policy got with the statement appended, when the role id is not in it.
PutKeyPolicy(p) ==
    /\ op = "key_policy" /\ RaceStep(p, "put", "done")
    /\ LET existing_policy == last[p]
           r == update_dataset_bucket_key_policy(existing_policy, prev.job[p].rid, "none")
       IN  key_policy' = IF r.doc # existing_policy THEN r.doc ELSE key_policy
    /\ UNCHANGED << last, ap_exists, ap_policy >>

\* S3.get_bucket_access_point_arn, S3.create_bucket_access_point when a
\* share finds none, S3.get_access_point_policy
GetAccessPointPolicy(p) ==
    /\ op = "access_point_policy" /\ RaceStep(p, "get", "put")
    /\ ap_exists' = (ap_exists \/ prev.job[p].step = "manage_access_point_and_policy")
    /\ last' = [last EXCEPT ![p] = ap_policy]
    /\ UNCHANGED << key_policy, ap_policy >>

\* The rest of manage_access_point_and_policy or delete_access_point_policy:
\* S3.attach_access_point_policy of the policy computed from the one got.
AttachAccessPointPolicy(p) ==
    /\ op = "access_point_policy" /\ RaceStep(p, "put", "done")
    /\ LET r == access_point_job(prev.job[p], TRUE, last[p], s3_normalises)
       IN  ap_policy' = IF r.raised THEN ap_policy ELSE r.doc
    /\ UNCHANGED << last, key_policy, ap_exists >>

NextRace ==
    \E p \in Procs :
        \/ GetKeyPolicy(p)
        \/ PutKeyPolicy(p)
        \/ GetAccessPointPolicy(p)
        \/ AttachAccessPointPolicy(p)

SpecRace == InitRace /\ [][NextRace]_vars

RacesDone == \A p \in Procs : pc[p] = "done"

\* C25: after two concurrent Approve runs for different target roles on
\* the dataset have both passed the key policy step, the key policy holds
\* the decrypt statement of both roles.
C25_NoLostKeyStatement ==
    (op = "key_policy" /\ RacesDone) =>
        \A p \in Procs : HasKeyStatement(key_policy, prev.job[p].rid)

\* The access point policy after run a and then run b, one after the other.
SerialAccessPointPolicy(a, b) ==
    LET first == access_point_job(prev.job[a], TRUE, prev.start.appol, s3_normalises)
        second == access_point_job(prev.job[b], TRUE, first.doc, s3_normalises)
    IN  second.doc

\* C26: after two concurrent runs on the access point policy, two shares of
\* different prefixes or a share and a revoke, the policy is what one of the
\* two serial orders of the runs gives.
C26_SerialAccessPointPolicy ==
    (op = "access_point_policy" /\ RacesDone) =>
        ap_policy \in {SerialAccessPointPolicy(1, 2), SerialAccessPointPolicy(2, 1)}

\* ---------------------------------------------------- sweeps and workflows
\* The invocation has written a terminal share status to o, last.
ReachedTerminal(o) ==
    /\ hist[o] # <<>>
    /\ hist[o][Len(hist[o])] \in ShareTerminal
    /\ item_status[o] \in ShareTerminal

SweepStarts == pc \in {"clean_shared_database", "clean_shared_folders"}

\* C28: in an Approve run, when a sweep (of the shadow database or of the
\* access point prefixes) is about to start, every shared table and every
\* shared folder of the run has reached its terminal status.
C28_SweepAfterItems ==
    (op = "approve" /\ SweepStarts) =>
        \A o \in Listed : ReachedTerminal(o)

\* ============================================== interrupted Approve, resumed
\* An Approve run of a share that may be interrupted after an external call
\* and is then invoked again for the same tables and folders.  No external
\* call fails (faults starts at MaxFaults); every object has an item row.
\* prev keeps the state the first invocation started from.
RunState(catalog, d, statuses) == [lf |-> catalog, docs |-> d, status |-> statuses]

\* F applied to the value of x.
Once(x, F(_)) == CHOOSE r \in {F(v) : v \in {x}} : TRUE

\* One pass of the loop of share_tables: Share_In_Progress, try ... except.
share_table(s, table) ==
    LET done == share_table_sequence(s.lf, table, "none")
        out == try_except(done.raised, Share_Succeeded, Share_Failed)
    IN  [s EXCEPT !.lf = done.lf,
                  !.status = update_share_item_status(s.status, table, out.status)]

RECURSIVE share_tables(_, _)
\* for table in shared_tables: ...
share_tables(s, tables) ==
    IF tables = <<>> THEN s
    ELSE Once(s, LAMBDA v : share_tables(share_table(v, Head(tables)), Tail(tables)))

\* One pass of the loop of share_folders: Share_In_Progress, try ... except.
share_folder(s, folder, raises, normalises) ==
    LET done == share_folder_sequence(s.docs, folder, "none", raises, normalises)
        out == try_except(done.raised, Share_Succeeded, Share_Failed)
    IN  [s EXCEPT !.docs = done.docs,
                  !.status = update_share_item_status(s.status, folder, out.status)]

RECURSIVE share_folders(_, _, _, _)
\* for folder in shared_folders: ...
share_folders(s, folders, raises, normalises) ==
    IF folders = <<>> THEN s
    ELSE Once(s, LAMBDA v : share_folders(share_folder(v, Head(folders), raises, normalises),
                                          Tail(folders), raises, normalises))

\* approve_share run from s to its return, no external call failing.
approve_share(s, tables, folders, shares, exists, raises, normalises) ==
    Once(share_tables(s, tables), LAMBDA shared :
    Once(clean_shared_database(shared.lf, tables, shares, exists, "none", "none"),
         LAMBDA swept :
    IF swept.raised THEN [shared EXCEPT !.lf = swept.lf]
    ELSE
    Once(share_folders([shared EXCEPT !.lf = swept.lf], folders, raises, normalises),
         LAMBDA granted :
    [granted EXCEPT !.docs = clean_shared_folders(granted.docs, folders, "none", "none",
                                                  raises, normalises)])))

\* The catalog after each external call of one table's try block.
TableInterrupts(catalog, table) ==
    LET revoked == revoke_iamallowedgroups_super_permission_from_table(
                       catalog, table, "none").lf
        shared == share_table_with_target_account(catalog, table, "none").lf
        created == [shared EXCEPT !.shadow = @ \cup {table}]
        linked == create_resource_link_on_target_account(shared, table, "none").lf
    IN  {catalog, revoked, shared, created, linked}

\* The catalog after each revoke of clean_shared_database, before
\* Glue.batch_delete_tables.
DatabaseSweepInterrupts(catalog, tables, shares, exists) ==
    LET shared_glue_tables == SelectSeq(TableOrder, LAMBDA t : t \in catalog.shadow)
        tables_to_delete == SelectSeq(shared_glue_tables, LAMBDA t : ~InSeq(t, tables))
    IN  {revoke_orphans(SubSeq(tables_to_delete, 1, j), catalog, shares, exists,
                        "none", "none").lf : j \in 0..Len(tables_to_delete)}

\* The documents after each external call of one folder's try block.
FolderInterrupts(d, s3_prefix, raises, normalises) ==
    LET b == manage_bucket_policy(d.bucket, "none")
        r == grant_target_role_access_policy(d.role, BucketName, AccessPointName,
                                             "none", raises)
        a == manage_access_point_and_policy(d.ap, d.appol, TargetRoleId, s3_prefix,
                                            "none", normalises)
        k == update_dataset_bucket_key_policy(d.key, TargetRoleId, "none")
        d1 == [d EXCEPT !.bucket = b.doc]
        d2 == [d1 EXCEPT !.role = r.doc]
        created == [d2 EXCEPT !.ap = TRUE]
        d3 == [d2 EXCEPT !.ap = a.ap, !.appol = a.doc]
        d4 == [d3 EXCEPT !.key = k.doc]
    IN  {d, d1}
        \cup (IF b.raised THEN {} ELSE {d2})
        \cup (IF b.raised \/ r.raised THEN {} ELSE {created, d3})
        \cup (IF b.raised \/ r.raised \/ a.raised THEN {} ELSE {d4})

\* The documents after each external call of the try block of one removed
\* prefix.
RevokeInterrupts(d, s3_prefix, raises, normalises) ==
    LET p == delete_access_point_policy(d.appol, TargetRoleId, s3_prefix, "none",
                                        normalises)
        a == delete_access_point(d.ap, p.doc, "none")
        r == delete_target_role_access_policy(d.role, BucketName, AccessPointName,
                                              "none", raises)
        k == delete_dataset_bucket_key_policy(d.key, TargetRoleId, "none")
        d1 == [d EXCEPT !.appol = p.doc]
        d2 == [d1 EXCEPT !.ap = a.ap, !.appol = a.doc]
        d3 == [d2 EXCEPT !.role = r.doc]
        d4 == [d3 EXCEPT !.key = k.doc]
    IN  {d, d1}
        \cup (IF p.raised THEN {} ELSE {d2})
        \cup (IF p.raised \/ a.raised \/ ~a.cleanup THEN {} ELSE {d3})
        \cup (IF p.raised \/ a.raised \/ ~a.cleanup \/ r.raised THEN {} ELSE {d4})

\* The documents after each external call of clean_shared_folders.
FolderSweepInterrupts(d, folders, raises, normalises) ==
    LET prefix_list == listed_prefixes(d.appol, TargetRoleId)
        removed_prefixes == SelectSeq(prefix_list, LAMBDA p : ~InSeq(p, folders))
    IN  {d} \cup UNION {
            Once(revoke_removed_prefixes(SubSeq(removed_prefixes, 1, j - 1), d,
                                         "none", "none", raises, normalises),
                 LAMBDA v : RevokeInterrupts(v, removed_prefixes[j], raises, normalises)) :
            j \in DOMAIN removed_prefixes }

BaseDocuments(role) ==
    [bucket |-> <<"NoSid">>, role |-> role, ap |-> FALSE, appol |-> NoPolicy,
     key |-> Policy(<< [Sid |-> "KeyAdmin", users |-> {"ADMIN"}] >>)]

StartPc == IF shared_tables # <<>> THEN "tables" ELSE "clean_shared_database"

\* The share was approved before for some tables and folders (or never);
\* the run starts for the tables and folders it lists now.
InitResume ==
    /\ op = "approve" /\ idx = 1 /\ runs = 1 /\ faults = MaxFaults
    /\ result = "none" /\ cause = "none" /\ revoke_entries = <<>>
    /\ target_env_group = TRUE
    /\ other_shares \in InitOtherShares
    /\ iam_raises \in BOOLEAN
    /\ s3_normalises \in BOOLEAN
    /\ shared_tables \in SubLists(TableOrder)
    /\ shared_folders \in SubLists(FolderOrder)
    /\ \E catalog \in InitLF, role \in InitRolePolicy,
          tables \in SubLists(TableOrder), folders \in SubLists(FolderOrder) :
          \E before \in {approve_share(
                              RunState(catalog, BaseDocuments(role),
                                       [o \in Objects |-> PendingApproval]),
                              tables, folders, other_shares, [t \in Tables |-> TRUE],
                              iam_raises, s3_normalises)} :
              /\ lf = before.lf
              /\ item_status = before.status
              /\ bucket_policy = before.docs.bucket
              /\ role_policy = before.docs.role
              /\ ap_exists = before.docs.ap
              /\ ap_policy = before.docs.appol
              /\ key_policy = before.docs.key
    /\ pc = StartPc
    /\ hist = NoHist /\ last = NoLast /\ touched = {}
    /\ prev = [op |-> "none", result |-> "none", tables |-> shared_tables,
               folders |-> shared_folders, status |-> item_status, docs |-> Docs,
               lf |-> lf]

\* The states the process may be in when it stops inside the step at pc.
Interrupted ==
    IF pc = "table_steps"
    THEN {[lf |-> l, docs |-> Docs] : l \in TableInterrupts(lf, shared_tables[idx])}
    ELSE IF pc = "clean_shared_database"
    THEN {[lf |-> l, docs |-> Docs] :
             l \in UNION {DatabaseSweepInterrupts(lf, shared_tables, other_shares, e) :
                             e \in [Tables -> BOOLEAN]}}
    ELSE IF pc = "folder_steps"
    THEN {[lf |-> lf, docs |-> d] :
             d \in FolderInterrupts(Docs, shared_folders[idx], iam_raises, s3_normalises)}
    ELSE IF pc = "clean_shared_folders"
    THEN {[lf |-> lf, docs |-> d] :
             d \in FolderSweepInterrupts(Docs, shared_folders, iam_raises, s3_normalises)}
    ELSE {[lf |-> lf, docs |-> Docs]}

\* The process stops after an external call: the session is not committed
\* any further, the stores keep what the calls made so far wrote.
Interrupt ==
    /\ op = "approve" /\ runs < MaxRuns
    /\ pc \in {"tables", "table_steps", "clean_shared_database", "folders",
               "folder_steps", "clean_shared_folders"}
    /\ \E s \in Interrupted : lf' = s.lf /\ SetDocs(s.docs)
    /\ pc' = "interrupted" /\ cause' = "interrupted"
    /\ UNCHANGED << op, idx, runs, faults, result, shared_tables, shared_folders,
                    revoke_entries, target_env_group, item_status, other_shares,
                    iam_raises, s3_normalises, hist, last, touched, prev >>

\* The dispatcher invokes approve_share again: get_share_data resolves the
\* same tables and folders.
Reinvoke ==
    /\ op = "approve" /\ pc = "interrupted"
    /\ runs' = runs + 1
    /\ pc' = StartPc /\ idx' = 1 /\ cause' = "none"
    /\ hist' = NoHist /\ last' = NoLast /\ touched' = {}
    /\ UNCHANGED << op, faults, result, shared_tables, shared_folders, revoke_entries,
                    target_env_group, item_status, other_shares, lf, stores,
                    iam_raises, s3_normalises, prev >>

NextResume ==
    \/ ShareTablesBegin
    \/ ShareTablesSteps
    \/ CleanSharedDatabase
    \/ ShareFoldersBegin
    \/ ShareFoldersSteps
    \/ CleanSharedFolders
    \/ Interrupt
    \/ Reinvoke

SpecResume == InitResume /\ [][NextResume]_vars

\* What one uninterrupted run from the state the first invocation started
\* from returns with, for an answer e of Glue.table_exists.
Uninterrupted(e) ==
    approve_share(RunState(prev.lf, prev.docs, prev.status), shared_tables,
                  shared_folders, other_shares, e, iam_raises, s3_normalises)

Resumed == op = "approve" /\ pc = "done" /\ runs > 1

\* C27: when an Approve run that was interrupted has been invoked again and
\* has returned, the four policy documents, the catalog objects and the
\* item statuses are those one uninterrupted run from the same start
\* returns with, and no item is Share_In_Progress.
C27_ResumedRunEqualsUninterrupted ==
    Resumed =>
        /\ \E e \in [Tables -> BOOLEAN] :
              \E run \in {Uninterrupted(e)} :
                 /\ Docs = run.docs
                 /\ lf = run.lf
                 /\ item_status = run.status
        /\ \A o \in Objects : item_status[o] # Share_In_Progress

\* ------------------------------------------------------ sweep of the prefixes
\* C31: clean_shared_folders never raises out of approve_share, which
\* returns after it, and a failing call keeps at most the prefix it was
\* issued for: the stale prefixes still listed when the sweep ends are no
\* more than the calls that failed in it, every other stale prefix has been
\* revoked.
C31_SweepIsolatesFailures ==
    [][(op = "approve" /\ pc = "clean_shared_folders" /\ pc' # pc) =>
          /\ pc' = "done" /\ result' = "success"
          /\ Cardinality(StalePrefixes') <= faults' - faults]_vars

\* Two prefixes were stale, the revoke of one failed, the other is gone.
C31_Witness ==
    /\ op = "approve" /\ pc = "done" /\ shared_folders = <<>>
    /\ SeqToSet(listed_prefixes(prev.docs.appol, TargetRoleId)) = {"f1", "f2"}
    /\ Cardinality(StalePrefixes) = 1

ListedPrefixes(doc) == SeqToSet(listed_prefixes(doc, TargetRoleId))

\* C32: when clean_shared_folders has run and no call of it failed, the
\* prefix list of the target role's statement holds no prefix outside the
\* shared folders, and every shared folder's prefix that was listed before
\* the sweep is still listed.
C32_SweepKeepsAuthorized ==
    [][(op = "approve" /\ pc = "clean_shared_folders" /\ pc' # pc /\ faults' = faults) =>
          /\ ListedPrefixes(ap_policy') \subseteq SeqToSet(shared_folders)
          /\ ListedPrefixes(ap_policy) \cap SeqToSet(shared_folders)
                 \subseteq ListedPrefixes(ap_policy')]_vars

\* f1 and f2 were listed, f1 alone is shared now: f2 is gone, f1 is kept.
C32_Witness ==
    /\ op = "approve" /\ pc = "done" /\ faults = 0
    /\ shared_folders = <<"f1">>
    /\ ListedPrefixes(prev.docs.appol) = {"f1", "f2"}
    /\ ListedPrefixes(ap_policy) = {"f1"}

\* ------------------------------------------------- revoke of resource links
\* C33: in a Reject run, a table whose own entry was revoked by the call
\* issued for it (the call was answered, the role's grant on the table's
\* link is gone) does not end in Revoke_Share_Failed.
C33_OwnEntryDecidesStatus ==
    (/\ op = "reject" /\ last.item \in Tables
     /\ last.fail # "call_error"
     /\ last.item \in touched
     /\ last.item \notin lf.link)
        => item_status[last.item] # Revoke_Share_Failed

\* C34: no step of a Reject run deletes from the shadow database the
\* resource link of a table that an Approved share of the dataset for the
\* target environment still shares.
C34_SiblingLinkKept ==
    [][op = "reject" =>
          \A t \in lf.shadow \ lf'.shadow : ~is_shared(other_shares, t)]_vars

\* ---------------------------------------------- removal of one folder prefix
\* The prefixes whose object ARN statement <rid>1 of the policy lists.
ListedResources(doc) ==
    IF doc.exists /\ HasSid(doc.stmts, Sid1(TargetRoleId))
    THEN SeqToSet(BySid(doc.stmts, Sid1(TargetRoleId)).vals)
    ELSE {}

\* C35: when the revoke sequence of a folder of a Reject run has run with no
\* call failing, every other prefix that was listed for the target role is
\* still listed in statement <rid>0 and its object ARN in statement <rid>1.
C35_OtherPrefixesKept ==
    [][(op = "reject" /\ pc = "folder_steps" /\ last'.fail = "none") =>
          \A q \in ListedPrefixes(ap_policy) \ {shared_folders[idx]} :
              /\ q \in ListedPrefixes(ap_policy')
              /\ q \in ListedResources(ap_policy')]_vars

\* ------------------------------------------------- a revoke call that raises
\* C36: when one of the revoke calls batch_revoke_permissions issues raises a
\* ClientError itself, batch_revoke_permissions raises.
C36_CallErrorRaised ==
    (op = "batch_revoke_permissions" /\ pc = "done" /\ ~AllAnswered) => last.raised

\* ======================================================= Reject, and again
\* A share that was approved for some tables and folders is rejected, and
\* reject_share is invoked again for it, after it returned or after the
\* process stopped inside a folder's revoke sequence.  No external call
\* fails (faults starts at MaxFaults); every object has an item row, and
\* the dataset has no other share.
InitShared ==
    /\ op = "none" /\ pc = "idle" /\ idx = 1 /\ runs = 0 /\ faults = MaxFaults
    /\ result = "none" /\ cause = "none"
    /\ shared_tables = <<>> /\ shared_folders = <<>> /\ revoke_entries = <<>>
    /\ target_env_group = TRUE
    /\ other_shares = {}
    /\ iam_raises \in BOOLEAN
    /\ s3_normalises \in BOOLEAN
    /\ \E role \in InitRolePolicy,
          tables \in {<<>>, <<"t1">>}, folders \in SubLists(FolderOrder) :
          \E before \in {approve_share(
                              RunState(EmptyLF, BaseDocuments(role),
                                       [o \in Objects |-> PendingApproval]),
                              tables, folders, other_shares, [t \in Tables |-> TRUE],
                              iam_raises, s3_normalises)} :
              /\ lf = before.lf
              /\ item_status = before.status
              /\ bucket_policy = before.docs.bucket
              /\ role_policy = before.docs.role
              /\ ap_exists = before.docs.ap
              /\ ap_policy = before.docs.appol
              /\ key_policy = before.docs.key
    /\ hist = NoHist /\ last = NoLast /\ touched = {}
    /\ prev = [op |-> "none", result |-> "none", tables |-> <<>>, folders |-> <<>>,
               status |-> item_status, docs |-> Docs]

\* The process stops inside the revoke sequence of a folder, after one of
\* its external calls; the item stays Revoke_In_Progress.
InterruptRevoke ==
    /\ op = "reject" /\ pc = "folder_steps" /\ runs < MaxRuns
    /\ \E d \in RevokeInterrupts(Docs, shared_folders[idx], iam_raises, s3_normalises) :
          SetDocs(d)
    /\ pc' = "error" /\ result' = "interrupted" /\ cause' = "interrupted"
    /\ UNCHANGED << op, idx, runs, faults, shared_tables, shared_folders,
                    revoke_entries, target_env_group, item_status, other_shares, lf,
                    iam_raises, s3_normalises, hist, last, touched, prev >>

NextReject ==
    \/ get_share_data("reject")
    \/ RevokeLinksBegin
    \/ RevokeLinksSteps
    \/ DeleteResourceLinks
    \/ CleanSharedDatabase
    \/ RevokeExternal
    \/ RevokeFoldersBegin
    \/ RevokeFoldersSteps
    \/ InterruptRevoke

SpecReject == InitShared /\ [][NextReject]_vars

\* A Reject has returned, and the invocation before it was a Reject of the
\* same tables and folders.
RejectedAgain ==
    /\ op = "reject" /\ pc = "done"
    /\ prev.op = "reject"
    /\ prev.tables = shared_tables /\ prev.folders = shared_folders

\* The role policy lists none of the bucket's resources.
RoleStripped ==
    ~role_policy.exists
    \/ \A i \in DOMAIN role_policy.res :
          ~InSeq(role_policy.res[i], target_resources(BucketName, AccessPointName))

\* C37: a Reject after a Reject that returned and had deleted the access
\* point leaves a folder it had set to Revoke_Share_Succeeded in that
\* status and the role policy and the key policy as they were; a Reject
\* after one that stopped once the access point was deleted leaves neither
\* the bucket's resources in the role policy nor the role's statement in the
\* key policy.
C37_RejectIdempotent ==
    (RejectedAgain /\ ~prev.docs.ap) =>
        /\ prev.result = "success" =>
              /\ \A f \in SeqToSet(shared_folders) :
                    prev.status[f] = Revoke_Share_Succeeded
                        => item_status[f] = Revoke_Share_Succeeded
              /\ role_policy = prev.docs.role
              /\ key_policy = prev.docs.key
        /\ prev.result = "interrupted" =>
              /\ RoleStripped
              /\ ~HasKeyStatement(key_policy, TargetRoleId)

\* The role policy the step began with lists the exact ARN of the bucket.
ListsBucket == InSeq(BucketArn(BucketName), prev.start.role.res)

\* C38: when the role policy does not list arn:aws:s3:::<bucket>, whatever
\* other bucket it lists (one whose name contains this bucket's name
\* included), the grant step completed without a failing call leaves the
\* bucket's four resources listed, and the revoke step does not raise and
\* leaves the policy as it was.
C38_ExactResourceDecides ==
    (pc # "start" /\ last.fail = "none" /\ ~ListsBucket) =>
        /\ op = "grant_target_role_access_policy" =>
              /\ role_policy.exists
              /\ \A r \in SeqToSet(target_resources(BucketName, AccessPointName)) :
                    InSeq(r, role_policy.res)
        /\ op = "delete_target_role_access_policy" =>
              /\ ~last.raised
              /\ role_policy = prev.start.role

====
